---- MODULE Spec2Model ----
(***************************************************************************)
(* The conversational incident-intake engine of services/ehs_chatbot.py:   *)
(* the dialogue controller (EnhancedSmartEHSChatbot), its prompt and       *)
(* validator catalog and the extraction engine (IncidentExtractor).        *)
(*                                                                         *)
(* A text is a sequence of tokens: its words in order, "," as a token of   *)
(* its own (a comma directly after the word before it) and WS for a        *)
(* whitespace character at either end.  Words inside a text are separated  *)
(* by single spaces.  Python's str operations are defined on this form.    *)
(***************************************************************************)
EXTENDS Integers, Sequences, FiniteSets, TLC

VARIABLES
  CONV,     \* _CONV: user_id -> Conversation
  reply,    \* the dict the last call of process_message returned
  raised,   \* the exception the last call of process_message raised, or NoException
  caller,   \* the user_id of the last call of process_message
  inflight, \* the calls of process_message that have begun and not returned:
            \* thread -> what the call read so far and how far it got
  sessions  \* five_whys_manager._sessions: user_id -> session dict

vars == <<CONV, reply, raised, caller, inflight, sessions>>

(***************************************************************************)
(* Texts                                                                   *)
(***************************************************************************)
WS == " "

EmptyText == << >>

\* None, as the value of an Optional[str]
NoneVal == << "<None>" >>

EmptyMap == [k \in {} |-> EmptyText]

NoException == "none"

RECURSIVE LStrip(_)
LStrip(t) == IF t # << >> /\ Head(t) = WS THEN LStrip(Tail(t)) ELSE t

RECURSIVE RStrip(_)
RStrip(t) == IF t # << >> /\ t[Len(t)] = WS THEN RStrip(SubSeq(t, 1, Len(t) - 1)) ELSE t

\* str.strip()
Strip(t) == RStrip(LStrip(t))

\* str.lower(), word by word
LowerMap ==
     "Aid" :> "aid" @@ "Arms" :> "arms" @@ "Back" :> "back" @@ "Bruise/Contusion" :>
  "bruise/contusion" @@ "Burn" :> "burn" @@ "Concern" :> "concern" @@ "Contractor" :>
  "contractor" @@ "Correct" :> "correct" @@ "Crush" :> "crush" @@ "Cut" :> "cut" @@ "Damage"
  :> "damage" @@ "Depot" :> "depot" @@ "Dislocation" :> "dislocation" @@ "Duty" :> "duty" @@
  "Employee(s)" :> "employee(s)" @@ "Environmental" :> "environmental" @@ "Event" :> "event"
  @@ "Eyes" :> "eyes" @@ "Fatality" :> "fatality" @@ "Feet/Toes" :> "feet/toes" @@ "First"
  :> "first" @@ "Fracture" :> "fracture" @@ "Full" :> "full" @@ "Hands/Fingers" :>
  "hands/fingers" @@ "Head/Scalp" :> "head/scalp" @@ "Individual" :> "individual" @@
  "Injury" :> "injury" @@ "Injury/Illness" :> "injury/illness" @@ "John" :> "john" @@
  "Laceration" :> "laceration" @@ "Legs" :> "legs" @@ "Lost" :> "lost" @@ "Medical" :>
  "medical" @@ "N/A" :> "n/a" @@ "Neck" :> "neck" @@ "No" :> "no" @@ "Other" :> "other" @@
  "Over" :> "over" @@ "Part" :> "part" @@ "Property" :> "property" @@ "Puncture" :>
  "puncture" @@ "Restricted" :> "restricted" @@ "Security" :> "security" @@ "Shoulders" :>
  "shoulders" @@ "Sprain" :> "sprain" @@ "Staff" :> "staff" @@ "Start" :> "start" @@
  "Strain" :> "strain" @@ "Temporary" :> "temporary" @@ "Theft" :> "theft" @@ "Time" :>
  "time" @@ "Torso/Chest" :> "torso/chest" @@ "Treatment" :> "treatment" @@ "Trespassing" :>
  "trespassing" @@ "Unknown" :> "unknown" @@ "Vandalism" :> "vandalism" @@ "Vehicle" :>
  "vehicle" @@ "Violence/Threat" :> "violence/threat" @@ "Visitor" :> "visitor" @@
  "Visitor(s)" :> "visitor(s)" @@ "Workplace" :> "workplace" @@ "Yes" :> "yes" @@ "Some" :> "some"
  @@ "Smith" :> "smith" @@ "Atlanta" :> "atlanta" @@ "Emergency" :> "emergency" @@
  "Someone" :> "someone" @@ "Call" :> "call" @@ "Find" :> "find"

LowerWord(w) == IF w \in DOMAIN LowerMap THEN LowerMap[w] ELSE w

LowerText(t) == [i \in DOMAIN t |-> LowerWord(t[i])]

\* str.title(), word by word
TitleMap ==
     "john" :> "John" @@ "broke" :> "Broke" @@ "arm" :> "Arm" @@ "warehouse" :> "Warehouse"
  @@ "oil" :> "Oil" @@ "truck" :> "Truck" @@ "damage" :> "Damage" @@ "garage" :> "Garage" @@
  "workshop" :> "Workshop" @@ "depot" :> "Depot" @@ "bay" :> "Bay" @@ "dock" :> "Dock" @@
  "yard" :> "Yard" @@ "line" :> "Line" @@ "assembly" :> "Assembly" @@ "plant" :> "Plant" @@
  "shop" :> "Shop" @@ "lab" :> "Lab" @@ "laboratory" :> "Laboratory" @@ "office" :> "Office"
  @@ "parking" :> "Parking" @@ "atlanta" :> "Atlanta" @@ "austin" :> "Austin" @@ "plymouth"
  :> "Plymouth" @@ "manheim" :> "Manheim" @@ "stassney" :> "Stassney" @@ "fracture" :>
  "Fracture" @@ "cut" :> "Cut" @@ "burn" :> "Burn" @@ "sprain" :> "Sprain" @@ "bruise" :>
  "Bruise" @@ "his" :> "His" @@ "in" :> "In" @@ "the" :> "The" @@ "is" :> "Is" @@
  "bleeding" :> "Bleeding" @@ "badly" :> "Badly" @@ "now" :> "Now" @@ "find" :> "Find" @@
  "sds" :> "Sds" @@ "emergency" :> "Emergency" @@ "help" :> "Help" @@ "urgent" :> "Urgent"
  @@ "report" :> "Report" @@ "incident" :> "Incident" @@ "hello" :> "Hello"

TitleWord(w) == IF w \in DOMAIN TitleMap THEN TitleMap[w] ELSE w

TitleText(t) == [i \in DOMAIN t |-> TitleWord(t[i])]

\* sep.join(parts): the parts in order with sep between them
RECURSIVE Join(_, _)
Join(sep, parts) ==
  IF parts = << >> THEN << >>
  ELSE IF Len(parts) = 1 THEN parts[1]
  ELSE parts[1] \o sep \o Join(sep, Tail(parts))

\* the separator ", "
CommaSep == << "," >>

\* kw in text, for a keyword kw of whole words
Contains(text, kw) ==
  \E i \in 1..(Len(text) - Len(kw) + 1) : SubSeq(text, i, i + Len(kw) - 1) = kw

\* a word of 4001 characters
LongWord == "x{4001}"

MAX_FREEFORM_LEN == 4000

\* len(word).  len is only ever compared with 2 (_extract_people) and with
\* MAX_FREEFORM_LEN (_len_ok); a word not listed has between 3 and 4000
\* characters and counts as 7.
CharLen(w) ==
  CASE w = LongWord -> MAX_FREEFORM_LEN + 1
    [] w \in {",", WS} -> 1
    [] w \in {"in", "it", "ok", "no", "No", "<1", "is"} -> 2
    [] w \in {"arm", "oil", "500", "yes", "Yes", "the", "and", "for", "his", "now", "sds",
              "911"} -> 3
    [] w \in {"John", "with"} -> 4
    [] w \in {"broke", "truck"} -> 5
    [] w \in {"damage"} -> 6
    [] w \in {"warehouse"} -> 9
    [] OTHER -> 7

\* len(text)
RECURSIVE TextLen(_)
TextLen(t) ==
  IF t = << >> THEN 0
  ELSE CharLen(Head(t))
       + (IF Len(t) > 1 /\ t[2] # "," /\ Head(t) # WS /\ t[2] # WS THEN 1 ELSE 0)
       + TextLen(Tail(t))

(***************************************************************************)
(* Prompt and validator catalog                                            *)
(***************************************************************************)
PROMPTS ==
     "event_type" :> "What type of event is this?"
  @@ "when" :> "When did this happen?"
  @@ "where" :> "Where did it happen? (site/facility and exact location)"
  @@ "description" :> "Please describe what happened in detail. Include who was involved, what occurred, when it happened, and the sequence of events:"
  @@ "immediate_actions" :> "What immediate actions were taken?"
  @@ "witnesses" :> "List any witnesses (names and contact if known), or type 'None':"
  @@ "enablon_confirm" :> "Was an Enablon report submitted?"
  @@ "inj_name" :> "Injured/Ill Person - full name:"
  @@ "inj_job_title" :> "Job title:"
  @@ "inj_phone" :> "Phone number:"
  @@ "inj_address" :> "Home address:"
  @@ "inj_city" :> "City:"
  @@ "inj_state" :> "State/Province:"
  @@ "inj_zip" :> "ZIP/Postal code:"
  @@ "inj_status" :> "Employee status:"
  @@ "inj_dept" :> "Department (if applicable):"
  @@ "inj_supervisor" :> "Supervisor name (if applicable):"
  @@ "inj_body_part" :> "Body part affected:"
  @@ "inj_injury_type" :> "Injury type:"
  @@ "inj_severity" :> "Injury severity:"
  @@ "inj_ppe" :> "PPE worn?"
  @@ "inj_treatment" :> "Initial treatment given (if any):"
  @@ "inj_law" :> "Was emergency service contacted?"
  @@ "inj_law_details" :> "If contacted: agency, time called, report # / officer name (or 'N/A'):"
  @@ "veh_driver" :> "Vehicle Incident - driver/operator name:"
  @@ "veh_unit" :> "Vehicle or equipment involved (plate/unit/ID):"
  @@ "veh_damage" :> "Describe vehicle/equipment damage (if any):"
  @@ "veh_third_party" :> "Any third-party vehicle/person involved?"
  @@ "veh_third_party_details" :> "If yes, provide details (name, contact, insurer, damage)."
  @@ "veh_photos" :> "Are photos/videos attached?"
  @@ "env_involved_parties" :> "Environmental - involved parties (full names):"
  @@ "env_roles" :> "Who was involved:"
  @@ "spill_volume" :> "Spill volume:"
  @@ "chemicals" :> "What chemical(s) were involved?"
  @@ "env_description" :> "Environmental spill event description:"
  @@ "env_corrective_action" :> "Immediate corrective action:"
  @@ "env_enablon_confirm" :> "Was an Enablon report submitted?"
  @@ "property_description" :> "Describe the property damage:"
  @@ "property_cost" :> "Approximate total cost of loss and repairs:"
  @@ "property_corrective_action" :> "Immediate corrective action taken:"
  @@ "property_enablon_confirm" :> "Was an Enablon report submitted?"
  @@ "security_event_types" :> "Type of Security Event:"
  @@ "security_description" :> "Security Concern description:"
  @@ "security_names_roles" :> "Name(s) and job title(s) or descriptions:"
  @@ "security_party_type" :> "Are they:"
  @@ "security_law" :> "Was law enforcement or emergency services contacted?"
  @@ "security_law_details" :> "If contacted: agency, time called, report # or officer name (or 'N/A'):"
  @@ "security_footage" :> "Is security footage available?"
  @@ "security_corrective_actions" :> "Corrective actions taken:"
  @@ "security_enablon_confirm" :> "Was an Enablon report submitted?"
  @@ "other_description" :> "Please describe the event:"
  @@ "other_actions" :> "Immediate actions taken:"
  @@ "why1" :> "Why 1?"
  @@ "why2" :> "Why 2?"
  @@ "why3" :> "Why 3?"
  @@ "why4" :> "Why 4?"
  @@ "why5" :> "Why 5?"
  @@ "capa_action" :> "Corrective/Preventive Action (what will be done?):"
  @@ "capa_owner" :> "CAPA owner (person responsible):"
  @@ "capa_due" :> "CAPA due date:"

FIELD_OPTIONS ==
     "event_type" :> [options |-> <<<<"Injury/Illness">>, <<"Vehicle">>, <<"Environmental">>, <<"Depot", "Event">>, <<"Property", "Damage">>, <<"Security", "Concern">>, <<"Other">>>>,
        ui |-> "buttons", multi_select |-> FALSE]
  @@ "inj_status" :> [options |-> <<<<"Full", "time">>, <<"Part", "time">>, <<"Temporary">>, <<"Contractor">>, <<"Visitor">>, <<"Other">>>>,
        ui |-> "buttons", multi_select |-> FALSE]
  @@ "inj_injury_type" :> [options |-> <<<<"Cut", ",", "Laceration", ",", "or", "Puncture">>, <<"Burn">>, <<"Fracture">>, <<"Bruise/Contusion">>, <<"Sprain", "or", "Strain">>, <<"Dislocation">>, <<"Crush", "Injury">>, <<"Other">>>>,
        ui |-> "dropdown", multi_select |-> FALSE]
  @@ "inj_body_part" :> [options |-> <<<<"Head/Scalp">>, <<"Eyes">>, <<"Neck">>, <<"Shoulders">>, <<"Back">>, <<"Arms">>, <<"Hands/Fingers">>, <<"Torso/Chest">>, <<"Legs">>, <<"Feet/Toes">>, <<"Other">>>>,
        ui |-> "dropdown", multi_select |-> FALSE]
  @@ "inj_severity" :> [options |-> <<<<"First", "Aid">>, <<"Medical", "Treatment">>, <<"Restricted", "Duty">>, <<"Lost", "Time">>, <<"Fatality">>>>,
        ui |-> "buttons", multi_select |-> FALSE]
  @@ "spill_volume" :> [options |-> <<<<"<1", "gallon">>, <<">1", "gallon">>, <<"Unknown">>>>,
        ui |-> "buttons", multi_select |-> FALSE]
  @@ "env_roles" :> [options |-> <<<<"Full", "time">>, <<"Part", "Time">>, <<"Temporary">>, <<"Contractor">>, <<"Visitor">>, <<"Other">>>>,
        ui |-> "buttons", multi_select |-> TRUE]
  @@ "security_event_types" :> [options |-> <<<<"Theft">>, <<"Trespassing">>, <<"Vandalism">>, <<"Workplace", "Violence/Threat">>, <<"Other">>>>,
        ui |-> "buttons", multi_select |-> TRUE]
  @@ "security_party_type" :> [options |-> <<<<"Employee(s)">>, <<"Visitor(s)">>, <<"Security", "Staff">>, <<"Unknown", "Individual">>, <<"Other">>>>,
        ui |-> "buttons", multi_select |-> FALSE]
  @@ "security_footage" :> [options |-> <<<<"Yes">>, <<"No">>, <<"N/A">>>>,
        ui |-> "buttons", multi_select |-> FALSE]
  @@ "enablon_confirm" :> [options |-> <<<<"Yes">>, <<"No">>>>,
        ui |-> "buttons", multi_select |-> FALSE]
  @@ "env_enablon_confirm" :> [options |-> <<<<"Yes">>, <<"No">>>>,
        ui |-> "buttons", multi_select |-> FALSE]
  @@ "property_enablon_confirm" :> [options |-> <<<<"Yes">>, <<"No">>>>,
        ui |-> "buttons", multi_select |-> FALSE]
  @@ "security_enablon_confirm" :> [options |-> <<<<"Yes">>, <<"No">>>>,
        ui |-> "buttons", multi_select |-> FALSE]
  @@ "inj_ppe" :> [options |-> <<<<"Yes">>, <<"No">>>>,
        ui |-> "buttons", multi_select |-> FALSE]
  @@ "inj_law" :> [options |-> <<<<"Yes">>, <<"No">>>>,
        ui |-> "buttons", multi_select |-> FALSE]
  @@ "veh_third_party" :> [options |-> <<<<"Yes">>, <<"No">>>>,
        ui |-> "buttons", multi_select |-> FALSE]
  @@ "veh_photos" :> [options |-> <<<<"Yes">>, <<"No">>>>,
        ui |-> "buttons", multi_select |-> FALSE]
  @@ "security_law" :> [options |-> <<<<"Yes">>, <<"No">>>>,
        ui |-> "buttons", multi_select |-> FALSE]
  @@ "when" :> [options |-> <<>>,
        ui |-> "datetime", multi_select |-> FALSE]
  @@ "capa_due" :> [options |-> <<>>,
        ui |-> "date", multi_select |-> FALSE]

(***************************************************************************)
(* Validators                                                              *)
(***************************************************************************)
\* re.fullmatch(r"(?:yes|no|y|n)\b", text.strip().lower())
is_yes_no(text) == LowerText(Strip(text)) \in {<<"yes">>, <<"no">>, <<"y">>, <<"n">>}

nonempty(text) == Strip(text) # EmptyText

len_ok(text) == TextLen(text) <= MAX_FREEFORM_LEN

\* words of the shape \d{4}-\d{2}-\d{2}, and whether date.fromisoformat accepts them
DateShaped == {"2024-01-15", "2024-13-45"}

DateValid == {"2024-01-15"}

\* words of the shape \d{2}[:\-]\d{2}, and whether strptime %H:%M accepts them
TimeShaped == {"10:30", "10-30", "25:99"}

TimeValid == {"10:30", "10-30"}

is_datetime(text) ==
  LET t == Strip(text) IN
  IF t = EmptyText THEN FALSE
  ELSE IF LowerText(t) = <<"unknown">> THEN TRUE
  ELSE IF ~(\/ (Len(t) = 1 /\ t[1] \in DateShaped)
            \/ (Len(t) = 2 /\ t[1] \in DateShaped /\ t[2] \in TimeShaped))
       THEN FALSE
  ELSE IF Len(t) = 1 THEN t[1] \in DateValid
  ELSE t[1] \in DateValid /\ t[2] \in TimeValid

VALIDATORS ==
     "yesno" :> "Please answer Yes or No."
  @@ "datetime" :> "Please provide a date/time (YYYY-MM-DD or YYYY-MM-DD HH:MM) or 'unknown'."
  @@ "nonempty" :> "This field is required."
  @@ "lenok" :> "Text too long (>4000 chars)."

\* VALIDATORS[validator][0](text)
ValidatorFn(validator, text) ==
  CASE validator = "yesno" -> is_yes_no(text)
    [] validator = "datetime" -> is_datetime(text)
    [] validator = "nonempty" -> nonempty(text)
    [] validator = "lenok" -> len_ok(text)

(***************************************************************************)
(* Extraction engine                                                       *)
(***************************************************************************)
\* the orders in which list(set(...)) can enumerate a set
RECURSIVE Orderings(_)
Orderings(S) ==
  IF S = {} THEN {<< >>}
  ELSE UNION {{<<x>> \o rest : rest \in Orderings(S \ {x})} : x \in S}

Range(list) == {list[i] : i \in DOMAIN list}

location_keywords ==
  <<<<"garage">>, <<"warehouse">>, <<"workshop">>, <<"depot">>, <<"bay">>, <<"dock">>, <<"yard">>, <<"line">>, <<"assembly">>, <<"plant">>, <<"shop">>, <<"lab">>, <<"laboratory">>, <<"office">>, <<"parking">>, <<"atlanta">>, <<"austin">>, <<"plymouth">>, <<"manheim">>, <<"stassney">>>>

body_part_keywords ==
  <<[canonical |-> "hand", keywords |-> {<<"hand">>, <<"hands">>, <<"finger">>, <<"fingers">>, <<"wrist">>, <<"wrists">>}],
    [canonical |-> "leg", keywords |-> {<<"leg">>, <<"legs">>, <<"knee">>, <<"knees">>, <<"ankle">>, <<"ankles">>, <<"foot">>, <<"feet">>}],
    [canonical |-> "back", keywords |-> {<<"back">>, <<"spine">>, <<"lower", "back">>, <<"upper", "back">>}],
    [canonical |-> "head", keywords |-> {<<"head">>, <<"skull">>, <<"face">>, <<"forehead">>}],
    [canonical |-> "arm", keywords |-> {<<"arm">>, <<"arms">>, <<"elbow">>, <<"elbows">>, <<"shoulder">>, <<"shoulders">>}],
    [canonical |-> "eye", keywords |-> {<<"eye">>, <<"eyes">>}],
    [canonical |-> "neck", keywords |-> {<<"neck">>}],
    [canonical |-> "chest", keywords |-> {<<"chest">>, <<"torso">>, <<"ribs">>}]>>

injury_keywords ==
  <<[canonical |-> "fracture", keywords |-> {<<"broke">>, <<"broken">>, <<"fracture">>, <<"fractured">>, <<"break">>}],
    [canonical |-> "cut", keywords |-> {<<"cut">>, <<"laceration">>, <<"slice">>, <<"sliced">>}],
    [canonical |-> "burn", keywords |-> {<<"burn">>, <<"burned">>, <<"burnt">>, <<"scalded">>}],
    [canonical |-> "sprain", keywords |-> {<<"sprain">>, <<"twisted">>, <<"strain">>, <<"strained">>}],
    [canonical |-> "bruise", keywords |-> {<<"bruise">>, <<"bruised">>, <<"contusion">>}]>>

\* the words that match [A-Z][a-z]+ under re.IGNORECASE: letters only, two or more
NameWords ==
  {"John", "broke", "arm", "warehouse", "oil", "truck", "damage", "Smith", "his", "in",
   "the", "Atlanta", "Emergency", "Someone", "is", "bleeding", "badly", "Call", "now",
   "Find", "find", "sds", "emergency", "help", "urgent", "report", "incident", "hello"}

IsNameWord(w) == w \in NameWords

RoleWords == {"worker", "employee", "engineer", "technician", "operator"}

\* name_patterns[0]: the maximal runs of name words
RECURSIVE NameRuns(_, _)
NameRuns(text, run) ==
  IF text = << >> THEN (IF run = << >> THEN << >> ELSE <<run>>)
  ELSE IF IsNameWord(Head(text)) THEN NameRuns(Tail(text), Append(run, Head(text)))
  ELSE (IF run = << >> THEN << >> ELSE <<run>>) \o NameRuns(Tail(text), << >>)

\* name_patterns[1]: the word after a role word
RECURSIVE RoleNames(_)
RoleNames(text) ==
  IF Len(text) < 2 THEN << >>
  ELSE IF LowerWord(text[1]) \in RoleWords /\ IsNameWord(text[2])
       THEN << <<text[2]>> >> \o RoleNames(Tail(Tail(text)))
  ELSE RoleNames(Tail(text))

NameStopList == {<<"the">>, <<"and">>, <<"for">>, <<"with">>}

KeepName(name) == TextLen(name) > 2 /\ LowerText(name) \notin NameStopList

\* the names found, before list(set(people))
PeopleFound(text) ==
  {TitleText(name) : name \in {n \in Range(NameRuns(text, << >>) \o RoleNames(text)) : KeepName(n)}}

\* _extract_people: the lists it can return
extract_people(text) == Orderings(PeopleFound(text))

extract_locations(text) ==
  LET found == SelectSeq(location_keywords, LAMBDA k : Contains(text, k))
  IN [i \in DOMAIN found |-> TitleText(found[i])]

chemical_patterns ==
  {<<"oil">>, <<"gasoline">>, <<"diesel">>, <<"hydraulic", "fluid">>, <<"coolant">>,
   <<"brake", "fluid">>, <<"battery", "acid">>, <<"chemical">>, <<"chemicals">>,
   <<"lubricant">>, <<"lubricants">>}

\* _extract_chemicals: the lists it can return
extract_chemicals(text) == Orderings({k \in chemical_patterns : Contains(text, k)})

\* words of the shape \d{1,3}(?:,\d{3})*(?:\.\d{2})?
NumberWords == {"500"}

UnitWords == {"dollars", "dollar", "usd"}

\* cost_patterns[0]: group(0) of each match, the trailing whitespace included
RECURSIVE CostMatches(_)
CostMatches(text) ==
  IF text = << >> THEN << >>
  ELSE IF Head(text) \in NumberWords
       THEN IF Len(text) = 1 THEN << <<Head(text)>> >>
            ELSE IF text[2] \in UnitWords
                 THEN << <<text[1], text[2]>> >> \o CostMatches(Tail(Tail(text)))
            ELSE IF text[2] = "," THEN << <<text[1]>> >> \o CostMatches(Tail(text))
            ELSE << <<text[1], WS>> >> \o CostMatches(Tail(text))
  ELSE CostMatches(Tail(text))

\* cost_patterns[1]: cost(?:ing)?\s+\$?(\d+(?:,\d+)*)
RECURSIVE CostWordMatches(_)
CostWordMatches(text) ==
  IF Len(text) < 2 THEN << >>
  ELSE IF text[1] \in {"cost", "costing"} /\ text[2] \in NumberWords
       THEN << <<text[1], text[2]>> >> \o CostWordMatches(Tail(Tail(text)))
  ELSE CostWordMatches(Tail(text))

extract_costs(text) == CostMatches(text) \o CostWordMatches(text)

KeywordHits(table, text) ==
  LET found == SelectSeq(table, LAMBDA e : \E k \in e.keywords : Contains(text, k))
  IN [i \in DOMAIN found |-> <<found[i].canonical>>]

extract_body_parts(text) == KeywordHits(body_part_keywords, text)

extract_injuries(text) == KeywordHits(injury_keywords, text)

AnyIn(indicators, text) == \E k \in indicators : Contains(text, k)

injury_indicators ==
  {<<"broke">>, <<"broken">>, <<"injured">>, <<"hurt">>, <<"hospital">>, <<"fracture">>,
   <<"sprain">>, <<"cut">>, <<"burn">>, <<"pain">>, <<"bleeding">>}

env_indicators ==
  {<<"spill">>, <<"spilled">>, <<"leak">>, <<"leaked">>, <<"oil">>, <<"chemical">>}

vehicle_indicators ==
  {<<"car">>, <<"vehicle">>, <<"truck">>, <<"collision">>, <<"accident">>, <<"crash">>}

damage_indicators ==
  {<<"damage">>, <<"cost">>, <<"repair">>, <<"broken", "equipment">>, <<"property">>}

detect_incident_types(text) ==
  LET types ==
        (IF AnyIn(injury_indicators, text) THEN << <<"Injury/Illness">> >> ELSE << >>)
        \o (IF AnyIn(env_indicators, text) THEN << <<"Environmental">> >> ELSE << >>)
        \o (IF AnyIn(vehicle_indicators, text) THEN << <<"Vehicle">> >> ELSE << >>)
        \o (IF AnyIn(damage_indicators, text) THEN << <<"Property", "Damage">> >> ELSE << >>)
  IN IF types # << >> THEN types ELSE << <<"Other">> >>

Min(a, b) == IF a <= b THEN a ELSE b

\* _calculate_confidence, in tenths
calculate_confidence(incident) ==
  Min(3
      + (IF incident.people # << >> THEN 2 ELSE 0)
      + (IF incident.locations # << >> THEN 1 ELSE 0)
      + (IF incident.injuries # << >> \/ incident.chemicals # << >> \/ incident.costs # << >>
         THEN 2 ELSE 0)
      + (IF Len(incident.people) > 1 THEN 1 ELSE 0)
      + (IF Len(incident.body_parts) > 0 THEN 1 ELSE 0),
      10)

\* ExtractedIncident(type) filled in by extract_incidents for one detected type
Incident(type, text, people, chemicals) ==
  LET base == [type |-> type, people |-> people, locations |-> extract_locations(text),
               injuries |-> IF type = <<"Injury/Illness">> THEN extract_injuries(text)
                            ELSE << >>,
               body_parts |-> IF type = <<"Injury/Illness">> THEN extract_body_parts(text)
                              ELSE << >>,
               chemicals |-> IF type = <<"Environmental">> THEN chemicals ELSE << >>,
               costs |-> IF type \in {<<"Property", "Damage">>, <<"Vehicle">>}
                         THEN extract_costs(text) ELSE << >>,
               confidence |-> 0]
  IN [base EXCEPT !.confidence = calculate_confidence(base)]

\* extract_incidents: the lists of incidents it can return for a description
extract_incidents(description) ==
  LET text == LowerText(description) IN
  LET types == detect_incident_types(text) IN
  {[i \in DOMAIN types |-> Incident(types[i], text, people, chemicals)] :
     people \in extract_people(description), chemicals \in extract_chemicals(text)}

(***************************************************************************)
(* Dialogue controller                                                     *)
(***************************************************************************)
\* a key that a reply dict does not hold
Absent == "<absent>"

\* d[k] = v on a dict
Put(d, k, v) == [x \in DOMAIN d \cup {k} |-> IF x = k THEN v ELSE d[x]]

\* Conversation(user_id=user_id)
Conversation(user_id) ==
  [user_id |-> user_id, queue |-> << >>, data |-> EmptyMap, event_type |-> NoneVal,
   extracted_incidents |-> << >>, pending_confirmations |-> EmptyMap, finished |-> FALSE]

\* no dict returned: the call raised
NoReply ==
  [reply |-> << >>, next_expected |-> Absent, done |-> FALSE, ui |-> Absent,
   options |-> << >>, result |-> << >>]

\* a method's outcome: the conversation it leaves, and what it returns or raises
Return(c, r) == [conv |-> c, reply |-> r, raised |-> NoException]

Raise(c, e) == [conv |-> c, reply |-> NoReply, raised |-> e]

QueueEntry(field_key, prompt, validator) ==
  [field_key |-> field_key, prompt |-> prompt, validator |-> validator]

QueueKeys(queue) == {queue[i].field_key : i \in DOMAIN queue}

FieldConfig(field_key) ==
  IF field_key \in DOMAIN FIELD_OPTIONS THEN FIELD_OPTIONS[field_key]
  ELSE [options |-> << >>, ui |-> "text", multi_select |-> FALSE]

start_incident(user_id) ==
  Return(Conversation(user_id),
         [reply |-> <<"**Incident Report**", PROMPTS["description"]>>,
          next_expected |-> "description", done |-> FALSE, ui |-> "textarea",
          options |-> << >>, result |-> << >>])

\* a prompt that carries no option list
make_prompt_without_options(field_key, prompt) ==
  [reply |-> prompt, next_expected |-> field_key, done |-> FALSE,
   ui |-> FieldConfig(field_key).ui, options |-> << >>, result |-> << >>]

make_prompt(field_key, prompt) ==
  [reply |-> prompt, next_expected |-> field_key, done |-> FALSE,
   ui |-> FieldConfig(field_key).ui, options |-> FieldConfig(field_key).options,
   result |-> << >>]

\* the mark that opens an error reply
Warn == "(!)"

make_error_prompt(field_key, prompt, validator) ==
  LET options == FieldConfig(field_key).options
      error_msg ==
        IF validator # Absent
        THEN <<Warn, IF validator \in DOMAIN VALIDATORS THEN VALIDATORS[validator]
                     ELSE "Invalid input.">> \o prompt
        ELSE IF options # << >>
        THEN <<Warn, "Please choose from:">> \o Join(CommaSep, options) \o prompt
        ELSE <<Warn, "Invalid input.">> \o prompt
  IN make_prompt(field_key, error_msg)

validate_field(field_key, text, validator) ==
  IF ~len_ok(text) THEN FALSE
  ELSE IF validator # Absent /\ validator \in DOMAIN VALIDATORS
          /\ ~ValidatorFn(validator, text)
       THEN FALSE
  ELSE LET field_config == FieldConfig(field_key)
           options == field_config.options
       IN IF options # << >> /\ ~field_config.multi_select
          THEN \E i \in DOMAIN options : Strip(LowerText(text)) = LowerText(options[i])
          ELSE TRUE

\* text.split(",")
RECURSIVE SplitComma(_, _)
SplitComma(text, part) ==
  IF text = << >> THEN <<part>>
  ELSE IF Head(text) = "," THEN <<part>> \o SplitComma(Tail(text), << >>)
  ELSE SplitComma(Tail(text), Append(part, Head(text)))

\* the first option equal to val but for case, as a list of none or one
MatchOption(val, options) ==
  LET hits == SelectSeq(options, LAMBDA opt : LowerText(val) = LowerText(opt))
  IN IF hits = << >> THEN << >> ELSE <<hits[1]>>

RECURSIVE MatchedOptions(_, _)
MatchedOptions(values, options) ==
  IF values = << >> THEN << >>
  ELSE MatchOption(Strip(Head(values)), options) \o MatchedOptions(Tail(values), options)

process_field_value(field_key, text) ==
  LET field_config == FieldConfig(field_key) IN
  IF field_config.multi_select
  THEN LET matched == MatchedOptions(SplitComma(text, << >>), field_config.options)
       IN IF matched # << >> THEN Join(CommaSep, matched) ELSE text
  ELSE Strip(text)

\* the (field_key, validator) pairs of an event type's question list
BranchFields(et) ==
  CASE et = <<"Injury/Illness">> ->
         << <<"inj_name", "nonempty">>, <<"inj_job_title", "nonempty">>,
            <<"inj_phone", "nonempty">>, <<"inj_address", "nonempty">>,
            <<"inj_city", "nonempty">>, <<"inj_state", "nonempty">>,
            <<"inj_zip", "nonempty">>, <<"inj_status", "nonempty">>,
            <<"inj_dept", "nonempty">>, <<"inj_supervisor", "nonempty">>,
            <<"inj_body_part", "nonempty">>, <<"inj_injury_type", "nonempty">>,
            <<"inj_severity", "nonempty">>, <<"inj_ppe", "yesno">>,
            <<"inj_treatment", "nonempty">>, <<"inj_law", "yesno">>,
            <<"inj_law_details", "nonempty">>, <<"immediate_actions", "nonempty">>,
            <<"witnesses", "nonempty">>, <<"enablon_confirm", "yesno">> >>
    [] et = <<"Vehicle">> ->
         << <<"veh_driver", "nonempty">>, <<"veh_unit", "nonempty">>,
            <<"veh_damage", "nonempty">>, <<"veh_third_party", "yesno">>,
            <<"veh_third_party_details", "nonempty">>, <<"veh_photos", "yesno">>,
            <<"immediate_actions", "nonempty">>, <<"witnesses", "nonempty">>,
            <<"enablon_confirm", "yesno">> >>
    [] et = <<"Environmental">> ->
         << <<"env_involved_parties", "nonempty">>, <<"env_roles", "nonempty">>,
            <<"spill_volume", "nonempty">>, <<"chemicals", "nonempty">>,
            <<"env_description", "nonempty">>, <<"env_corrective_action", "nonempty">>,
            <<"env_enablon_confirm", "yesno">>, <<"immediate_actions", "nonempty">>,
            <<"witnesses", "nonempty">> >>
    [] et = <<"Depot", "Event">> ->
         << <<"depot_description", "nonempty">>, <<"depot_immediate_actions", "nonempty">>,
            <<"depot_outcome_lessons", "nonempty">>, <<"immediate_actions", "nonempty">>,
            <<"witnesses", "nonempty">>, <<"enablon_confirm", "yesno">> >>
    [] et = <<"Property", "Damage">> ->
         << <<"property_description", "nonempty">>, <<"property_cost", "nonempty">>,
            <<"property_corrective_action", "nonempty">>,
            <<"property_enablon_confirm", "yesno">>,
            <<"immediate_actions", "nonempty">>, <<"witnesses", "nonempty">> >>
    [] et = <<"Security", "Concern">> ->
         << <<"security_event_types", "nonempty">>, <<"security_description", "nonempty">>,
            <<"security_names_roles", "nonempty">>, <<"security_party_type", "nonempty">>,
            <<"security_law", "yesno">>, <<"security_law_details", "nonempty">>,
            <<"security_footage", "nonempty">>,
            <<"security_corrective_actions", "nonempty">>,
            <<"security_enablon_confirm", "yesno">>,
            <<"immediate_actions", "nonempty">>, <<"witnesses", "nonempty">> >>
    [] OTHER ->
         << <<"other_description", "nonempty">>, <<"other_actions", "nonempty">>,
            <<"immediate_actions", "nonempty">>, <<"witnesses", "nonempty">>,
            <<"enablon_confirm", "yesno">> >>

\* a faulty variant: the last question of the list is left out
PromptTuplesButLast(fields) ==
  [i \in 1..(Len(fields) - 1) |->
     QueueEntry(fields[i][1], <<PROMPTS[fields[i][1]]>>, fields[i][2])]

\* the prompt tuples of a question list; PROMPTS[key] raises KeyError on a missing key
PromptTuples(fields) ==
  [i \in DOMAIN fields |-> QueueEntry(fields[i][1], <<PROMPTS[fields[i][1]]>>, fields[i][2])]

\* a faulty variant: the questions not yet answered go to the front of the queue
FilterAndExtendFront(convo, prompts) ==
  [convo EXCEPT !.queue =
     SelectSeq(prompts, LAMBDA p : p.field_key \notin DOMAIN convo.data) \o @]

\* a faulty variant: the whole question list joins the queue, answered or not
FilterAndExtendUnfiltered(convo, prompts) == [convo EXCEPT !.queue = @ \o prompts]

\* the end of _enqueue_branch: the questions not yet answered join the queue
FilterAndExtend(convo, prompts) ==
  [convo EXCEPT !.queue =
     @ \o SelectSeq(prompts, LAMBDA p : p.field_key \notin DOMAIN convo.data)]

EnqueueFields(convo, fields) ==
  IF \E i \in DOMAIN fields : fields[i][1] \notin DOMAIN PROMPTS
  THEN Raise(convo, "KeyError")
  ELSE Return(FilterAndExtend(convo, PromptTuples(fields)), NoReply)

enqueue_branch(convo, event_type) ==
  EnqueueFields(convo,
                BranchFields(Strip(IF event_type = NoneVal THEN EmptyText ELSE event_type)))

\* a faulty variant: the five whys without the corrective-action questions
enqueue_root_cause_only(convo) ==
  [convo EXCEPT !.queue =
     @ \o << QueueEntry("why1", <<"**Root Cause Analysis (5 Whys)**", PROMPTS["why1"]>>,
                        "nonempty"),
              QueueEntry("why2", <<PROMPTS["why2"]>>, "nonempty"),
              QueueEntry("why3", <<PROMPTS["why3"]>>, "nonempty"),
              QueueEntry("why4", <<PROMPTS["why4"]>>, "nonempty"),
              QueueEntry("why5", <<PROMPTS["why5"]>>, "nonempty") >>]

enqueue_root_cause_and_action(convo) ==
  LET rc_prompts ==
        << QueueEntry("why1", <<"**Root Cause Analysis (5 Whys)**", PROMPTS["why1"]>>,
                      "nonempty"),
           QueueEntry("why2", <<PROMPTS["why2"]>>, "nonempty"),
           QueueEntry("why3", <<PROMPTS["why3"]>>, "nonempty"),
           QueueEntry("why4", <<PROMPTS["why4"]>>, "nonempty"),
           QueueEntry("why5", <<PROMPTS["why5"]>>, "nonempty"),
           QueueEntry("capa_action",
                      <<"**Corrective & Preventive Actions**", PROMPTS["capa_action"]>>,
                      "nonempty"),
           QueueEntry("capa_owner", <<PROMPTS["capa_owner"]>>, "nonempty"),
           QueueEntry("capa_due", <<PROMPTS["capa_due"]>>, "nonempty") >>
  IN [convo EXCEPT !.queue = @ \o rc_prompts]

summary_lines(convo) ==
  (IF convo.event_type # NoneVal /\ convo.event_type # EmptyText
   THEN << <<"**Event Type**:">> \o convo.event_type >> ELSE << >>)
  \o (IF "when" \in DOMAIN convo.data
      THEN << <<"**Date/Time**:">> \o convo.data["when"] >> ELSE << >>)
  \o (IF "where" \in DOMAIN convo.data
      THEN << <<"**Location**:">> \o convo.data["where"] >> ELSE << >>)
  \o (IF convo.event_type = <<"Injury/Illness">> /\ "inj_name" \in DOMAIN convo.data
      THEN << <<"**Injured Person**:">> \o convo.data["inj_name"] >>
      ELSE IF "veh_driver" \in DOMAIN convo.data
      THEN << <<"**Driver**:">> \o convo.data["veh_driver"] >>
      ELSE << >>)

FinalReply(convo, summary) ==
  Return(convo,
         [reply |-> <<"**Incident Report Complete!**">> \o summary,
          next_expected |-> Absent, done |-> TRUE, ui |-> "buttons",
          options |-> << <<"Submit", "Report">>, <<"Create", "Another", "Report">>,
                         <<"Review", "&", "Edit">> >>,
          result |-> << [ok |-> TRUE, message |-> "Incident report completed successfully!",
                         data |-> convo.data, event_type |-> convo.event_type,
                         completed |-> TRUE, summary |-> summary] >>])

finalize(convo) ==
  FinalReply([convo EXCEPT !.finished = TRUE], Join(<<"\n">>, summary_lines(convo)))

\* key.startswith("why"), on the keys data can hold
StartsWithWhy(key) == key \in {"why1", "why2", "why3", "why4", "why5"}

\* _next_prompt on a queue that is not empty
HeadPrompt(convo) ==
  Return(convo, make_prompt(convo.queue[1].field_key, convo.queue[1].prompt))

\* a faulty variant: an empty queue always finalizes
finalize_at_once(convo) == finalize(convo)

finalize_or_continue(convo) ==
  LET has_root_cause == \E key \in DOMAIN convo.data : StartsWithWhy(key) IN
  IF ~has_root_cause /\ ~convo.finished
  THEN HeadPrompt(enqueue_root_cause_and_action(convo))
  ELSE finalize(convo)

next_prompt(convo) ==
  IF convo.queue = << >> THEN finalize_or_continue(convo)
  ELSE HeadPrompt(convo)

\* a faulty variant: the event type is asked first
setup_basic_flow_type_first(convo) ==
  next_prompt([convo EXCEPT !.queue =
     @ \o << QueueEntry("event_type", <<PROMPTS["event_type"]>>, "nonempty"),
              QueueEntry("when", <<PROMPTS["when"]>>, "datetime"),
              QueueEntry("where", <<PROMPTS["where"]>>, "nonempty") >>])

setup_basic_flow(convo) ==
  LET basics == << QueueEntry("when", <<PROMPTS["when"]>>, "datetime"),
                   QueueEntry("where", <<PROMPTS["where"]>>, "nonempty"),
                   QueueEntry("event_type", <<PROMPTS["event_type"]>>, "nonempty") >>
  IN next_prompt([convo EXCEPT !.queue = @ \o basics])

\* what follows _enqueue_branch in its caller: b is its outcome on convo
AfterBranch(convo, b) ==
  IF b.raised # NoException THEN Raise(convo, b.raised) ELSE next_prompt(b.conv)

EnqueueIfMissing(convo, field_key, validator) ==
  IF field_key \notin DOMAIN convo.data
  THEN [convo EXCEPT !.queue = Append(@, QueueEntry(field_key, <<PROMPTS[field_key]>>,
                                                    validator))]
  ELSE convo

TargetedBranch(convo) ==
  IF convo.event_type # NoneVal /\ convo.event_type # EmptyText
  THEN AfterBranch(convo, enqueue_branch(convo, convo.event_type))
  ELSE next_prompt(convo)

setup_targeted_flow(convo) ==
  TargetedBranch(EnqueueIfMissing(EnqueueIfMissing(convo, "when", "datetime"),
                                  "where", "nonempty"))

\* the event type selection: convo holds the answer in data
SelectEventType(convo) ==
  AfterBranch([convo EXCEPT !.event_type = convo.data["event_type"]],
              enqueue_branch([convo EXCEPT !.event_type = convo.data["event_type"]],
                             convo.data["event_type"]))

\* a faulty variant: the stored answer replaces what was captured before
SaveValueAlone(convo, field_key, text) ==
  [convo EXCEPT !.data = Put(EmptyMap, field_key, process_field_value(field_key, text)),
                !.queue = Tail(@)]

\* the answer text passed validation for the head of the queue
SaveValue(convo, field_key, text) ==
  [convo EXCEPT !.data = Put(@, field_key, process_field_value(field_key, text)),
                !.queue = Tail(@)]

AfterSave(convo, field_key) ==
  IF field_key = "event_type" THEN SelectEventType(convo) ELSE next_prompt(convo)

\* a faulty variant: a rejected answer starts the report over
ProcessHeadStartOver(convo, text, head) ==
  IF ~validate_field(head.field_key, text, head.validator)
  THEN start_incident(convo.user_id)
  ELSE AfterSave(SaveValue(convo, head.field_key, text), head.field_key)

\* a faulty variant: the answer is stored before it is validated
ProcessHeadStoreFirst(convo, text, head) ==
  IF ~validate_field(head.field_key, text, head.validator)
  THEN Return([convo EXCEPT !.data = Put(@, head.field_key, text)],
              make_error_prompt(head.field_key, head.prompt, head.validator))
  ELSE AfterSave(SaveValue(convo, head.field_key, text), head.field_key)

ProcessHead(convo, text, head) ==
  IF ~validate_field(head.field_key, text, head.validator)
  THEN Return(convo, make_error_prompt(head.field_key, head.prompt, head.validator))
  ELSE AfterSave(SaveValue(convo, head.field_key, text), head.field_key)

process_regular_field(convo, text) ==
  IF convo.queue = << >> THEN finalize_or_continue(convo)
  ELSE ProcessHead(convo, text, convo.queue[1])

\* incidents.sort(key=lambda x: x.confidence, reverse=True): stable, highest first
RECURSIVE SortByConfidence(_)
SortByConfidence(incidents) ==
  IF incidents = << >> THEN << >>
  ELSE LET n == Len(incidents)
           x == incidents[n]
           sorted == SortByConfidence(SubSeq(incidents, 1, n - 1))
           p == Cardinality({i \in DOMAIN sorted : sorted[i].confidence >= x.confidence})
       IN SubSeq(sorted, 1, p) \o <<x>> \o SubSeq(sorted, p + 1, Len(sorted))

ConfirmOptions ==
  << <<"Yes", ",", "correct">>, <<"Some", "corrections", "needed">>, <<"Start", "over">> >>

\* one extracted detail: its line in the message and its entry in confirmation_data
Propose(cond, s, label, shown, key, value) ==
  IF cond THEN [lines |-> Append(s.lines, <<label>> \o shown), data |-> Put(s.data, key, value)]
  ELSE s

\* the lines of the confirmation message and confirmation_data
Confirmations(p) ==
  Propose(p.costs # << >>,
    Propose(p.type = <<"Environmental">> /\ p.chemicals # << >>,
      Propose(p.type = <<"Injury/Illness">> /\ p.injuries # << >>,
        Propose(p.type = <<"Injury/Illness">> /\ p.body_parts # << >>,
          Propose(p.locations # << >>,
            Propose(p.people # << >>,
              Propose(p.confidence > 5,
                [lines |-> << >>, data |-> EmptyMap],
                "**Event Type**:", p.type, "event_type", p.type),
              "**People Involved**:", Join(CommaSep, p.people), "people", p.people),
            "**Location**:", Join(CommaSep, p.locations), "where",
            Join(CommaSep, p.locations)),
          "**Body Parts**:", Join(CommaSep, p.body_parts), "body_parts", p.body_parts),
        "**Injury Type**:", Join(CommaSep, p.injuries), "injuries", p.injuries),
      "**Chemicals**:", Join(CommaSep, p.chemicals), "chemicals",
      Join(CommaSep, p.chemicals)),
    "**Estimated Cost**:", Join(CommaSep, p.costs), "costs", Join(CommaSep, p.costs))

AskConfirmation(convo, conf, multiple_incidents) ==
  IF conf.lines # << >>
  THEN Return([convo EXCEPT !.pending_confirmations = conf.data],
              [reply |-> <<IF multiple_incidents
                           THEN "**I detected multiple incidents from your description:**"
                           ELSE "**I extracted these details from your description:**">>
                         \o Join(<<"\n">>, conf.lines)
                         \o <<"**Are these details correct?**">>,
               next_expected |-> "confirmation", done |-> FALSE, ui |-> "buttons",
               options |-> ConfirmOptions, result |-> << >>])
  ELSE setup_basic_flow(convo)

\* incidents is the list after the sort; convo.extracted_incidents is that same list
ConfirmSorted(convo, incidents) ==
  AskConfirmation([convo EXCEPT !.extracted_incidents = incidents],
                  Confirmations(incidents[1]),
                  Len(incidents) > 1 \/ Len(incidents[1].people) > 1)

build_confirmation_message(convo, incidents) ==
  IF incidents = << >> THEN setup_basic_flow(convo)
  ELSE ConfirmSorted(convo, SortByConfidence(incidents))

process_initial_description(convo, text, incidents) ==
  IF ~nonempty(text) \/ ~len_ok(text)
  THEN Return(convo,
              [reply |-> <<Warn, "Please provide a description of what happened.">>,
               next_expected |-> "description", done |-> FALSE, ui |-> "textarea",
               options |-> << >>, result |-> << >>])
  ELSE build_confirmation_message(
         [convo EXCEPT !.data = Put(@, "description", text),
                       !.extracted_incidents = incidents],
         incidents)

\* the first character of a word
FirstCharOf ==
  "500" :> "5" @@ "cost" :> "c" @@ "costing" :> "c"

\* value[0] if value else "", for a str value
FirstChar(value) == IF value = EmptyText THEN EmptyText ELSE <<FirstCharOf[value[1]]>>

\* one pass of the loop over pending_confirmations.items(), for the key
ApplyKey(convo, key) ==
  IF key \notin DOMAIN convo.pending_confirmations THEN convo
  ELSE IF key = "event_type"
  THEN [convo EXCEPT !.data = Put(@, key, convo.pending_confirmations[key]),
                     !.event_type = convo.pending_confirmations[key]]
  ELSE IF key = "people"
  THEN IF convo.pending_confirmations[key] # << >>
          /\ convo.event_type = <<"Injury/Illness">>
       THEN [convo EXCEPT !.data = Put(@, "inj_name", convo.pending_confirmations[key][1])]
       ELSE convo
  ELSE IF key = "where"
  THEN [convo EXCEPT !.data = Put(@, key, convo.pending_confirmations[key])]
  ELSE IF key = "body_parts"
  THEN IF convo.pending_confirmations[key] # << >>
       THEN [convo EXCEPT
               !.data = Put(@, "inj_body_part", convo.pending_confirmations[key][1])]
       ELSE convo
  ELSE IF key = "injuries"
  THEN IF convo.pending_confirmations[key] # << >>
       THEN [convo EXCEPT
               !.data = Put(@, "inj_injury_type",
                            TitleText(convo.pending_confirmations[key][1]))]
       ELSE convo
  ELSE IF key = "chemicals"
  THEN [convo EXCEPT !.data = Put(@, "chemicals", convo.pending_confirmations[key])]
  ELSE IF key = "costs"
  THEN [convo EXCEPT
          !.data = Put(@, "property_cost", FirstChar(convo.pending_confirmations[key]))]
  ELSE convo

\* the keys of pending_confirmations in the order _build_confirmation_message sets them
ConfirmationKeys ==
  <<"event_type", "people", "where", "body_parts", "injuries", "chemicals", "costs">>

RECURSIVE ApplyKeys(_, _)
ApplyKeys(convo, keys) ==
  IF keys = << >> THEN convo ELSE ApplyKeys(ApplyKey(convo, Head(keys)), Tail(keys))

ApplyConfirmed(convo) == ApplyKeys(convo, ConfirmationKeys)

ClearPending(convo) == [convo EXCEPT !.pending_confirmations = EmptyMap]

\* a faulty variant: a proposal that needs correction is committed all the same
process_confirmations_commit_always(convo, text) ==
  IF Strip(LowerText(text)) \in {<<"yes">>, <<"yes", ",", "correct">>, <<"correct">>, <<"y">>}
  THEN setup_targeted_flow(ClearPending(ApplyConfirmed(convo)))
  ELSE IF Strip(LowerText(text)) \in {<<"some", "corrections", "needed">>, <<"corrections">>,
                                      <<"no">>, <<"n">>}
  THEN setup_basic_flow(ClearPending(ApplyConfirmed(convo)))
  ELSE IF Strip(LowerText(text)) \in {<<"start", "over">>, <<"restart">>}
  THEN setup_basic_flow(
         [convo EXCEPT
            !.data = Put(EmptyMap, "description",
                         IF "description" \in DOMAIN convo.data
                         THEN convo.data["description"] ELSE EmptyText),
            !.pending_confirmations = EmptyMap,
            !.extracted_incidents = << >>])
  ELSE Return(convo,
              [reply |-> <<"Please choose one of the options:">>,
               next_expected |-> "confirmation", done |-> FALSE, ui |-> "buttons",
               options |-> ConfirmOptions, result |-> << >>])

process_confirmations(convo, text) ==
  LET response == Strip(LowerText(text)) IN
  IF response \in {<<"yes">>, <<"yes", ",", "correct">>, <<"correct">>, <<"y">>}
  THEN setup_targeted_flow(ClearPending(ApplyConfirmed(convo)))
  ELSE IF response \in {<<"some", "corrections", "needed">>, <<"corrections">>, <<"no">>,
                        <<"n">>}
  THEN setup_basic_flow([convo EXCEPT !.pending_confirmations = EmptyMap])
  ELSE IF response \in {<<"start", "over">>, <<"restart">>}
  THEN setup_basic_flow(
         [convo EXCEPT
            !.data = Put(EmptyMap, "description",
                         IF "description" \in DOMAIN convo.data
                         THEN convo.data["description"] ELSE EmptyText),
            !.pending_confirmations = EmptyMap,
            !.extracted_incidents = << >>])
  ELSE Return(convo,
              [reply |-> <<"Please choose one of the options:">>,
               next_expected |-> "confirmation", done |-> FALSE, ui |-> "buttons",
               options |-> ConfirmOptions, result |-> << >>])

\* a faulty variant: a pending confirmation does not hold back the queue
DispatchPastConfirmation(convo, text, incidents) ==
  IF DOMAIN convo.data = {} /\ convo.queue = << >>
  THEN process_initial_description(convo, text, incidents)
  ELSE process_regular_field(convo, text)

\* process_message(text, user_id) on _CONV; incidents is what the extractor returns
\* for the text
Dispatch(convo, text, incidents) ==
  IF DOMAIN convo.data = {} /\ convo.queue = << >>
  THEN process_initial_description(convo, text, incidents)
  ELSE IF DOMAIN convo.pending_confirmations # {}
  THEN process_confirmations(convo, text)
  ELSE process_regular_field(convo, text)

\* a faulty variant: the call leaves no conversation but the caller's
OutcomeOfCallerAlone(conv, user_id, r) ==
  [CONV |-> Put(EmptyMap, user_id, r.conv), reply |-> r.reply, raised |-> r.raised]

\* _CONV after the call, with what the call returned or raised
Outcome(conv, user_id, r) ==
  [CONV |-> Put(conv, user_id, r.conv), reply |-> r.reply, raised |-> r.raised]

\* a faulty variant: a finished conversation is continued
process_message_past_finish(conv, raw_text, user_id, incidents) ==
  IF user_id \notin DOMAIN conv
  THEN Outcome(conv, user_id, start_incident(user_id))
  ELSE Outcome(conv, user_id, Dispatch(conv[user_id], Strip(raw_text), incidents))

process_message(conv, raw_text, user_id, incidents) ==
  IF user_id \notin DOMAIN conv \/ conv[user_id].finished
  THEN Outcome(conv, user_id, start_incident(user_id))
  ELSE Outcome(conv, user_id, Dispatch(conv[user_id], Strip(raw_text), incidents))

(***************************************************************************)
(* The messages users send                                                 *)
(***************************************************************************)
Users == {"u1"}

DescVocab == {"broke", "arm", "warehouse", "oil", "truck", "damage", "500"}

MaxDescWords == 2

Descriptions == UNION {[1..n -> DescVocab] : n \in 1..MaxDescWords}

DescInputs == Descriptions \cup {EmptyText, <<WS>>, <<LongWord>>, <<WS, "truck", WS>>}

ConfirmInputs ==
  {<<"yes">>, <<"Yes", ",", "correct">>, <<"no">>, <<"Some", "corrections", "needed">>,
   <<"start", "over">>, <<"restart">>, <<"maybe">>, EmptyText}

CommonInputs == {EmptyText, <<WS>>, <<LongWord>>, <<"ok">>}

YesNoFields ==
  {"enablon_confirm", "env_enablon_confirm", "property_enablon_confirm",
   "security_enablon_confirm", "inj_ppe", "inj_law", "veh_third_party", "veh_photos",
   "security_law"}

\* the answers tried for a field, next to the common ones
FieldInputs(field_key) ==
  CASE field_key = "event_type" ->
         Range(FIELD_OPTIONS["event_type"].options)
         \cup {<<"vehicle">>, <<"property", "damage">>, <<WS, "Vehicle", WS>>,
               <<"forklift">>, <<"injury", ",", "vehicle">>, <<"injury", "and", "vehicle">>}
    [] field_key = "when" -> {<<"2024-01-15">>, <<"2024-13-45">>, <<"2024-01-15", "25:99">>}
    [] field_key \in YesNoFields -> {<<"yes">>, <<"y">>}
    [] field_key = "security_event_types" -> {<<"theft", ",", "Other">>}
    [] field_key = "env_roles" -> {<<"full", "time", ",", "visitor">>}
    [] field_key \in DOMAIN FIELD_OPTIONS /\ FIELD_OPTIONS[field_key].options # << >> ->
         {FIELD_OPTIONS[field_key].options[1]}
    [] OTHER -> {}

AnswerInputs(field_key) == CommonInputs \cup FieldInputs(field_key)

(***************************************************************************)
(* Specification                                                           *)
(***************************************************************************)
Init ==
  /\ CONV = EmptyMap
  /\ reply = NoReply
  /\ raised = NoException
  /\ caller = Absent
  /\ inflight = EmptyMap
  /\ sessions = EmptyMap

\* a call of process_message has begun and not returned
Busy == \E t \in DOMAIN inflight : inflight[t].pc # "returned"

\* one call of process_message, from its start to its return with no other call
\* in between
Call(u, text, incidents) ==
  /\ ~Busy
  /\ \E r \in {process_message(CONV, text, u, incidents)} :
       /\ CONV' = r.CONV
       /\ reply' = r.reply
       /\ raised' = r.raised
       /\ caller' = u
  /\ UNCHANGED <<inflight, sessions>>

Active(u) == u \in DOMAIN CONV /\ ~CONV[u].finished

AwaitingDescription(u) ==
  Active(u) /\ DOMAIN CONV[u].data = {} /\ CONV[u].queue = << >>

AwaitingConfirmation(u) ==
  Active(u) /\ ~AwaitingDescription(u) /\ DOMAIN CONV[u].pending_confirmations # {}

Collecting(u) ==
  Active(u) /\ ~AwaitingDescription(u) /\ DOMAIN CONV[u].pending_confirmations = {}

\* a message from a user with no conversation, or with a finished one
FirstContact(u) ==
  /\ ~Active(u)
  /\ Call(u, <<"hello">>, << >>)

\* the free-text description
Describe(u) ==
  /\ AwaitingDescription(u)
  /\ \E text \in DescInputs :
       \E incidents \in extract_incidents(Strip(text)) : Call(u, text, incidents)

\* a response to the confirmation message
Confirm(u) ==
  /\ AwaitingConfirmation(u)
  /\ \E text \in ConfirmInputs : Call(u, text, << >>)

\* an answer to the prompt at the head of the queue
Answer(u) ==
  /\ Collecting(u)
  /\ \E text \in (IF CONV[u].queue = << >> THEN CommonInputs
                  ELSE AnswerInputs(CONV[u].queue[1].field_key)) :
       Call(u, text, << >>)

Next == \E u \in Users : FirstContact(u) \/ Describe(u) \/ Confirm(u) \/ Answer(u)

Spec == Init /\ [][Next]_vars

(***************************************************************************)
(* Properties                                                              *)
(***************************************************************************)
\* the field keys of a queue, in order
KeySeq(queue) == [i \in DOMAIN queue |-> queue[i].field_key]

\* the conversation the last reply belongs to
Current == CONV[caller]

Called == caller \in DOMAIN CONV

\* the last reply re-emits a prompt after a rejected answer
ErrorReply == reply.reply # << >> /\ Head(reply.reply) = Warn

\* C1 (no-repeat): a field key that has a value in data is not in the queue, the
\* queue holds no key twice, and the prompt just sent is not for a key that has a
\* value already.
NoRepeat ==
  \A u \in DOMAIN CONV :
    /\ QueueKeys(CONV[u].queue) \cap DOMAIN CONV[u].data = {}
    /\ Cardinality(QueueKeys(CONV[u].queue)) = Len(CONV[u].queue)
    /\ (u = caller /\ raised = NoException => reply.next_expected \notin DOMAIN CONV[u].data)

\* an accepted extraction filled the body part before the injury questions were queued
NoRepeatWitness ==
  \E u \in DOMAIN CONV :
    /\ CONV[u].event_type = <<"Injury/Illness">>
    /\ "inj_body_part" \in DOMAIN CONV[u].data
    /\ "inj_body_part" \notin QueueKeys(CONV[u].queue)
    /\ "inj_job_title" \in QueueKeys(CONV[u].queue)
    /\ "inj_severity" \in QueueKeys(CONV[u].queue)

\* C2: for every text that fails validation for the head of the queue,
\* process_message leaves the conversation as it was and its reply expects the same
\* head-of-queue field.
RejectionKeepsConversation ==
  \A u \in Users :
    Collecting(u) /\ CONV[u].queue # << >> =>
      \A text \in AnswerInputs(CONV[u].queue[1].field_key) :
        ~validate_field(CONV[u].queue[1].field_key, Strip(text), CONV[u].queue[1].validator)
        => \E r \in {process_message(CONV, text, u, << >>)} :
             /\ r.raised = NoException
             /\ r.CONV = CONV
             /\ r.reply.next_expected = CONV[u].queue[1].field_key

\* a rejected answer: the error reply for a branch question, asked after two
\* answers were stored
RejectionWitness ==
  /\ Called
  /\ Collecting(caller)
  /\ ErrorReply
  /\ reply.next_expected = "property_cost"
  /\ Current.queue # << >>
  /\ Current.queue[1].field_key = "property_cost"
  /\ "property_description" \in DOMAIN Current.data

\* the seven labels offered for event_type
CanonicalLabels == Range(FIELD_OPTIONS["event_type"].options)

\* C3: the event type stored in data and on the conversation is one of the seven
\* canonical labels, in every state.
CanonicalEventType ==
  \A u \in DOMAIN CONV :
    /\ "event_type" \in DOMAIN CONV[u].data
         => CONV[u].data["event_type"] \in CanonicalLabels
    /\ CONV[u].event_type \in CanonicalLabels \cup {NoneVal}

\* the field keys of an event type's question list
BranchKeys(et) == {BranchFields(et)[i][1] : i \in DOMAIN BranchFields(et)}

RootCauseOrder ==
  <<"why1", "why2", "why3", "why4", "why5", "capa_action", "capa_owner", "capa_due">>

RootCauseKeys == Range(RootCauseOrder)

\* C4: when the stored event type equals a canonical label but for case, the branch
\* questions in the queue are questions of that label's own list.
CaseInsensitiveBranch ==
  \A u \in DOMAIN CONV : \A label \in CanonicalLabels :
    LowerText(Strip(CONV[u].event_type)) = LowerText(label)
    => (QueueKeys(CONV[u].queue) \ (RootCauseKeys \cup {"when", "where"}))
         \subseteq BranchKeys(label)

\* C5: while a confirmation is pending the queue is empty and data holds the
\* description only, and every message either resolves the confirmation or leaves
\* the conversation as it was and asks for the confirmation again.
ConfirmationFirst ==
  \A u \in DOMAIN CONV :
    DOMAIN CONV[u].pending_confirmations # {} =>
      /\ CONV[u].queue = << >>
      /\ DOMAIN CONV[u].data = {"description"}
      /\ \A text \in ConfirmInputs \cup CommonInputs :
           \E r \in {process_message(CONV, text, u, << >>)} :
             \/ DOMAIN r.CONV[u].pending_confirmations = {}
             \/ /\ r.CONV = CONV
                /\ r.reply.next_expected = "confirmation"

\* an unrecognised response while the confirmation is pending
ConfirmationWitness ==
  /\ Called
  /\ DOMAIN Current.pending_confirmations # {}
  /\ reply.reply = <<"Please choose one of the options:">>
  /\ reply.next_expected = "confirmation"

\* C6: no call of process_message raises.
NeverRaises == raised = NoException

\* C7: the payload of a finalized conversation has an event type that is not None,
\* and values for when and where.
FinalPayloadHasEventType ==
  reply.done =>
    /\ reply.result[1].event_type # NoneVal
    /\ {"when", "where"} \subseteq DOMAIN reply.result[1].data

\* C8: a reply with done = true belongs to a finalized conversation; its payload has
\* ok and completed true, and its data is the conversation's data, with all of
\* why1..why5, capa_action, capa_owner and capa_due.
DoneOnlyWhenFinalized ==
  reply.done =>
    /\ Called
    /\ Current.finished
    /\ reply.result # << >>
    /\ reply.result[1].ok
    /\ reply.result[1].completed
    /\ reply.result[1].data = Current.data
    /\ RootCauseKeys \subseteq DOMAIN reply.result[1].data

\* a finalized vehicle report
DoneWitness ==
  /\ reply.done
  /\ Called
  /\ Current.finished
  /\ Current.event_type = <<"Vehicle">>
  /\ {"veh_driver", "why1", "capa_due"} \subseteq DOMAIN Current.data

\* s is the end of t
IsSuffix(s, t) == Len(s) <= Len(t) /\ s = SubSeq(t, Len(t) - Len(s) + 1, Len(t))

\* C9: a conversation that is collecting answers never has an empty queue (when
\* the queue empties the root-cause set is enqueued at that moment, or the
\* conversation is finalized), and the root-cause set is in the queue only after
\* the other questions, once and in order, its answered part in data.
RootCauseOnceWhenEmpty ==
  \A u \in Users :
    Collecting(u) =>
      /\ CONV[u].queue # << >>
      /\ QueueKeys(CONV[u].queue) \cap RootCauseKeys # {} =>
           /\ IsSuffix(KeySeq(CONV[u].queue), RootCauseOrder)
           /\ RootCauseKeys \ QueueKeys(CONV[u].queue) \subseteq DOMAIN CONV[u].data
      /\ DOMAIN CONV[u].data \cap RootCauseKeys # {} =>
           QueueKeys(CONV[u].queue) \subseteq RootCauseKeys

\* when, where and event_type = Property Damage have values, and no branch
\* question was answered by an accepted extraction
ScenarioD(u) ==
  /\ u \in DOMAIN CONV
  /\ CONV[u].event_type = <<"Property", "Damage">>
  /\ {"when", "where", "event_type"} \subseteq DOMAIN CONV[u].data
  /\ "property_cost" \in DOMAIN CONV[u].data
       => "property_description" \in DOMAIN CONV[u].data

\* the answers stored after the description and the basics
FurtherAnswers(u) ==
  Cardinality(DOMAIN CONV[u].data \ {"description", "when", "where", "event_type"})

\* the questions still to come: those queued, and the root-cause set if it has
\* not been enqueued yet
QuestionsLeft(u) ==
  Len(CONV[u].queue)
  + (IF (QueueKeys(CONV[u].queue) \cup DOMAIN CONV[u].data) \cap RootCauseKeys = {}
     THEN Len(RootCauseOrder) ELSE 0)

BranchOrder(et) == [i \in DOMAIN BranchFields(et) |-> BranchFields(et)[i][1]]

\* the branch questions of a queue: all but when and where
BranchPart(queue) == SelectSeq(KeySeq(queue), LAMBDA k : k \notin {"when", "where"})

\* the event type is a canonical label and no root-cause question was enqueued yet
InBranchPhase(u) ==
  /\ Collecting(u)
  /\ CONV[u].event_type \in CanonicalLabels
  /\ (QueueKeys(CONV[u].queue) \cup DOMAIN CONV[u].data) \cap RootCauseKeys = {}

\* the questions of the event type's list that are queued or answered
BranchCount(u) ==
  Cardinality(BranchKeys(CONV[u].event_type)
              \cap (QueueKeys(CONV[u].queue) \cup DOMAIN CONV[u].data))

BasicKeys == {"when", "where", "event_type"}

\* the group of a field key: basic info, branch-specific, or root cause and CAPA
KeyGroup(k) ==
  IF k \in BasicKeys THEN "basic" ELSE IF k \in RootCauseKeys THEN "root_cause" ELSE "branch"

\* C12: in every queue the basic fields come before the branch fields and those
\* before the root-cause and CAPA fields: no branch field precedes a basic field,
\* and no why or capa field precedes a basic or a branch field.
QueueGroupOrder ==
  \A u \in DOMAIN CONV :
    \A i, j \in DOMAIN CONV[u].queue :
      i < j =>
        /\ KeyGroup(CONV[u].queue[i].field_key) = "branch"
             => KeyGroup(CONV[u].queue[j].field_key) # "basic"
        /\ KeyGroup(CONV[u].queue[i].field_key) = "root_cause"
             => KeyGroup(CONV[u].queue[j].field_key) = "root_cause"

\* a queue with basic fields and branch fields: when and where ahead of the
\* vehicle questions, after an accepted extraction
QueueGroupOrderWitness ==
  \E u \in DOMAIN CONV :
    /\ Len(CONV[u].queue) > 2
    /\ CONV[u].queue[1].field_key = "when"
    /\ CONV[u].queue[2].field_key = "where"
    /\ CONV[u].queue[3].field_key = "veh_driver"

\* C13: for a user whose conversation is finalized, every further message replaces
\* the conversation by a new one, with empty data, empty queue, no event type and
\* finished = false, and the reply asks for the description.
NewConversationAfterFinalize ==
  \A u \in DOMAIN CONV :
    CONV[u].finished =>
      \A text \in ConfirmInputs \cup CommonInputs \cup {<<"hello">>} :
        \E r \in {process_message(CONV, text, u, << >>)} :
          /\ r.raised = NoException
          /\ r.CONV[u].user_id = u
          /\ DOMAIN r.CONV[u].data = {}
          /\ r.CONV[u].queue = << >>
          /\ r.CONV[u].event_type = NoneVal
          /\ DOMAIN r.CONV[u].pending_confirmations = {}
          /\ r.CONV[u].extracted_incidents = << >>
          /\ ~r.CONV[u].finished
          /\ r.reply.next_expected = "description"
          /\ ~r.reply.done
          /\ r.reply.reply = <<"**Incident Report**", PROMPTS["description"]>>

\* a finalized security report, which the next message replaces
NewConversationWitness ==
  /\ Called
  /\ Current.finished
  /\ Current.event_type = <<"Security", "Concern">>
  /\ DOMAIN Current.data # {}
  /\ ENABLED FirstContact(caller)

\* the responses that accept a confirmation
AcceptInputs == {<<"yes">>, <<"Yes", ",", "correct">>}

\* the conversation c is what accepting the proposal p has to leave: every
\* proposed value but the cost committed, the proposal cleared, the branch of the
\* confirmed event type queued without the fields that have a value
AcceptCommits(p, c) ==
  /\ DOMAIN c.pending_confirmations = {}
  /\ "description" \in DOMAIN c.data
  /\ "event_type" \in DOMAIN p =>
       /\ "event_type" \in DOMAIN c.data
       /\ c.data["event_type"] = p["event_type"]
       /\ c.event_type = p["event_type"]
       /\ BranchPart(c.queue)
            = SelectSeq(BranchOrder(p["event_type"]), LAMBDA k : k \notin DOMAIN c.data)
  /\ "where" \in DOMAIN p =>
       "where" \in DOMAIN c.data /\ c.data["where"] = p["where"]
  /\ "people" \in DOMAIN p /\ "event_type" \in DOMAIN p
       /\ p["event_type"] = <<"Injury/Illness">> =>
       "inj_name" \in DOMAIN c.data /\ c.data["inj_name"] = p["people"][1]
  /\ "body_parts" \in DOMAIN p =>
       "inj_body_part" \in DOMAIN c.data /\ c.data["inj_body_part"] = p["body_parts"][1]
  /\ "injuries" \in DOMAIN p =>
       /\ "inj_injury_type" \in DOMAIN c.data
       /\ LowerText(c.data["inj_injury_type"]) = LowerText(p["injuries"][1])
  /\ "chemicals" \in DOMAIN p =>
       "chemicals" \in DOMAIN c.data /\ c.data["chemicals"] = p["chemicals"]
  /\ QueueKeys(c.queue) \cap DOMAIN c.data = {}

\* C14: accepting the confirmation commits every proposed value into data (event
\* type, location, primary person, body part, injury, chemical, cost), clears
\* pending_confirmations and queues the branch of the confirmed event type without
\* the fields that have a value; the reply prompts for a field without a value.
AcceptCommitsProposal ==
  \A u \in DOMAIN CONV :
    DOMAIN CONV[u].pending_confirmations # {} =>
      \A text \in AcceptInputs :
        \E r \in {process_message(CONV, text, u, << >>)} :
          /\ r.raised = NoException
          /\ AcceptCommits(CONV[u].pending_confirmations, r.CONV[u])
          /\ "costs" \in DOMAIN CONV[u].pending_confirmations =>
               /\ "property_cost" \in DOMAIN r.CONV[u].data
               /\ r.CONV[u].data["property_cost"] = CONV[u].pending_confirmations["costs"]
          /\ r.reply.next_expected \notin DOMAIN r.CONV[u].data

\* C15: while a proposal awaits its confirmation data holds the description and
\* nothing else, and no event type is set; a response other than an accept leaves
\* data as it is, so no extracted value is written.
ExtractionAdvisory ==
  \A u \in DOMAIN CONV :
    DOMAIN CONV[u].pending_confirmations # {} =>
      /\ DOMAIN CONV[u].data = {"description"}
      /\ CONV[u].event_type = NoneVal
      /\ \A text \in ConfirmInputs \ AcceptInputs :
           \E r \in {process_message(CONV, text, u, << >>)} :
             /\ r.CONV[u].data = CONV[u].data
             /\ r.CONV[u].event_type = NoneVal

\* a proposal with an event type and a location awaits its confirmation, and data
\* holds neither
ExtractionAdvisoryWitness ==
  \E u \in DOMAIN CONV :
    /\ {"event_type", "where"} \subseteq DOMAIN CONV[u].pending_confirmations
    /\ CONV[u].extracted_incidents # << >>
    /\ DOMAIN CONV[u].data = {"description"}
    /\ u = caller
    /\ reply.next_expected = "confirmation"
    /\ reply.options = ConfirmOptions

\* the responses that ask to start over
StartOverInputs == {<<"start", "over">>, <<"restart">>}

\* C16: answering a confirmation with start over keeps the description alone in
\* data and extracts it again: a proposal for the same description awaits
\* confirmation afterwards, and the reply asks for that confirmation.
StartOverRestartsExtraction ==
  \A u \in DOMAIN CONV :
    DOMAIN CONV[u].pending_confirmations # {} =>
      \A text \in StartOverInputs :
        \E r \in {process_message(CONV, text, u, << >>)} :
          /\ r.CONV[u].data = CONV[u].data
          /\ DOMAIN r.CONV[u].data = {"description"}
          /\ DOMAIN r.CONV[u].pending_confirmations
               = DOMAIN CONV[u].pending_confirmations
          /\ r.CONV[u].extracted_incidents # << >>
          /\ r.CONV[u].queue = << >>
          /\ r.reply.next_expected = "confirmation"

\* the responses that ask for corrections
NeedsCorrectionInputs == {<<"no">>, <<"Some", "corrections", "needed">>}

\* C17: answering a confirmation with needs correction discards the proposal:
\* pending_confirmations is empty, data holds the description as before and
\* nothing else, the queue is when, where, event_type in that order, and the reply
\* prompts for when.
NeedsCorrectionFallsBack ==
  \A u \in DOMAIN CONV :
    DOMAIN CONV[u].pending_confirmations # {} =>
      \A text \in NeedsCorrectionInputs :
        \E r \in {process_message(CONV, text, u, << >>)} :
          /\ r.raised = NoException
          /\ DOMAIN r.CONV[u].pending_confirmations = {}
          /\ r.CONV[u].data = CONV[u].data
          /\ DOMAIN r.CONV[u].data = {"description"}
          /\ r.CONV[u].event_type = NoneVal
          /\ KeySeq(r.CONV[u].queue) = <<"when", "where", "event_type">>
          /\ r.reply.next_expected = "when"
          /\ r.reply.reply = <<PROMPTS["when"]>>
          /\ ~r.reply.done

\* a declined proposal: the extraction, with the people it proposed, is still on
\* the conversation, nothing of it is in data, and the basic questions are queued
NeedsCorrectionWitness ==
  /\ Called
  /\ Current.extracted_incidents # << >>
  /\ Current.extracted_incidents[1].people # << >>
  /\ DOMAIN Current.pending_confirmations = {}
  /\ DOMAIN Current.data = {"description"}
  /\ KeySeq(Current.queue) = <<"when", "where", "event_type">>
  /\ reply.next_expected = "when"
  /\ ~ErrorReply

\* a candidate of the extraction whose event type is confident
Confident(incidents) == \E i \in DOMAIN incidents : incidents[i].confidence > 5

\* C18: an accepted description leads to a confirmation, with the options accept,
\* needs correction and start over, only if the extraction produced a confident
\* candidate; otherwise when, where and event_type are queued and when is asked.
ConfirmationOnlyWhenConfident ==
  \A u \in Users :
    AwaitingDescription(u) =>
      \A text \in DescInputs : \A incidents \in extract_incidents(Strip(text)) :
        nonempty(Strip(text)) /\ len_ok(Strip(text)) =>
          \E r \in {process_message(CONV, text, u, incidents)} :
            IF Confident(incidents)
            THEN /\ DOMAIN r.CONV[u].pending_confirmations # {}
                 /\ r.CONV[u].queue = << >>
                 /\ r.reply.next_expected = "confirmation"
                 /\ r.reply.options = ConfirmOptions
            ELSE /\ DOMAIN r.CONV[u].pending_confirmations = {}
                 /\ KeySeq(r.CONV[u].queue) = <<"when", "where", "event_type">>
                 /\ r.reply.next_expected = "when"

\* the event_type question is at the head of the queue
AskingEventType(u) ==
  /\ Collecting(u)
  /\ CONV[u].queue # << >>
  /\ CONV[u].queue[1].field_key = "event_type"

\* C19 (Scenario B): the answer forklift to the event_type question is accepted,
\* stores the event type Vehicle and queues the nine questions of the Vehicle list.
ForkliftIsVehicle ==
  \A u \in Users :
    AskingEventType(u) =>
      \E r \in {process_message(CONV, <<"forklift">>, u, << >>)} :
        /\ r.raised = NoException
        /\ r.CONV[u].event_type = <<"Vehicle">>
        /\ "event_type" \in DOMAIN r.CONV[u].data
        /\ r.CONV[u].data["event_type"] = <<"Vehicle">>
        /\ KeySeq(r.CONV[u].queue) = KeySeq(Tail(CONV[u].queue)) \o BranchOrder(<<"Vehicle">>)
        /\ Len(BranchOrder(<<"Vehicle">>)) = 9

\* the event_type answers that name two labels
AmbiguousInputs == {<<"injury", "and", "vehicle">>, <<"injury", ",", "vehicle">>}

\* C20 (Scenario C): an event_type answer that names two labels gets an error
\* reply that lists the labels it matched, Injury/Illness and Vehicle; the
\* conversation is unchanged and event_type is still the field expected.
AmbiguousChoiceError ==
  \A u \in Users :
    AskingEventType(u) =>
      \A text \in AmbiguousInputs :
        \E r \in {process_message(CONV, text, u, << >>)} :
          /\ r.raised = NoException
          /\ r.CONV = CONV
          /\ r.reply.next_expected = "event_type"
          /\ Head(r.reply.reply) = Warn
          /\ {"Injury/Illness", "Vehicle"} \subseteq Range(r.reply.reply)

\* text equals none of the event_type labels, whatever the case
NoLabelMatches(text) ==
  \A label \in CanonicalLabels : Strip(LowerText(text)) # LowerText(label)

\* C21 (no-match): an answer to the event_type question that equals none of the
\* seven labels leaves the conversation (queue and data) as it was, and the reply
\* is an error reply that asks event_type again and carries the seven options.
NoMatchFullOptions ==
  \A u \in Users :
    AskingEventType(u) =>
      \A text \in AnswerInputs("event_type") :
        NoLabelMatches(text) =>
          \E r \in {process_message(CONV, text, u, << >>)} :
            /\ r.raised = NoException
            /\ r.CONV = CONV
            /\ r.reply.reply # << >>
            /\ Head(r.reply.reply) = Warn
            /\ IsSuffix(<<PROMPTS["event_type"]>>, r.reply.reply)
            /\ r.reply.next_expected = "event_type"
            /\ ~r.reply.done
            /\ r.reply.options = FIELD_OPTIONS["event_type"].options
            /\ Len(r.reply.options) = 7

\* the error reply to an event_type answer that matched no label, after when and
\* where were stored
NoMatchWitness ==
  /\ Called
  /\ AskingEventType(caller)
  /\ ErrorReply
  /\ reply.next_expected = "event_type"
  /\ Len(reply.options) = 7
  /\ {"when", "where"} \subseteq DOMAIN Current.data
  /\ "event_type" \notin DOMAIN Current.data

\* every key of data before has the same value in data after
Keeps(before, after) ==
  \A k \in DOMAIN before : k \in DOMAIN after /\ after[k] = before[k]

\* the messages tried in a conversation's phase, with what the extractor returns
\* for each; the start-over responses to a confirmation are left out
AdditiveInputs(u) ==
  IF AwaitingDescription(u)
  THEN UNION {{<<text, incidents>> : incidents \in extract_incidents(Strip(text))} :
                text \in DescInputs}
  ELSE IF AwaitingConfirmation(u)
  THEN {<<text, << >> >> : text \in (ConfirmInputs \cup CommonInputs) \ StartOverInputs}
  ELSE {<<text, << >> >> :
          text \in (IF CONV[u].queue = << >> THEN CommonInputs
                    ELSE AnswerInputs(CONV[u].queue[1].field_key))}

\* C22 (additive): for every message to a conversation in progress, other than a
\* start-over response to a confirmation, every key of data keeps its value: no
\* captured value is discarded or overwritten, whether the message is accepted,
\* rejected or ends in an exception.
PurelyAdditive ==
  \A u \in Users :
    Active(u) =>
      \A m \in AdditiveInputs(u) :
        \E r \in {process_message(CONV, m[1], u, m[2])} :
          /\ u \in DOMAIN r.CONV
          /\ Keeps(CONV[u].data, r.CONV[u].data)

\* an accepted answer was added to five captured values, all of them kept
AdditiveWitness ==
  /\ Called
  /\ Collecting(caller)
  /\ ~ErrorReply
  /\ {"description", "when", "where", "event_type", "veh_driver", "veh_unit"}
       \subseteq DOMAIN Current.data
  /\ "veh_damage" \notin DOMAIN Current.data
  /\ reply.next_expected = "veh_damage"

\* the lines of the proposal that awaits the user's confirmation
ProposalLines(convo) == Confirmations(convo.extracted_incidents[1]).lines

\* the responses a pending confirmation does not recognise
UnrecognisedResponses ==
  (ConfirmInputs \cup CommonInputs) \ (AcceptInputs \cup NeedsCorrectionInputs \cup StartOverInputs)

\* the reply to a rejected answer ends with the prompt of the head of the queue
FieldErrorRestates ==
  \A u \in Users :
    Collecting(u) /\ CONV[u].queue # << >> =>
      \A text \in AnswerInputs(CONV[u].queue[1].field_key) :
        ~validate_field(CONV[u].queue[1].field_key, Strip(text), CONV[u].queue[1].validator)
        => \E r \in {process_message(CONV, text, u, << >>)} :
             /\ r.reply.next_expected = CONV[u].queue[1].field_key
             /\ IsSuffix(CONV[u].queue[1].prompt, r.reply.reply)

\* the reply to a rejected description asks for the description
DescriptionErrorRestates ==
  \A u \in Users :
    AwaitingDescription(u) =>
      \A text \in CommonInputs :
        ~nonempty(Strip(text)) \/ ~len_ok(Strip(text))
        => \E r \in {process_message(CONV, text, u, << >>)} :
             /\ r.reply.next_expected = "description"
             /\ Range(r.reply.reply)
                  \cap {PROMPTS["description"],
                        "Please provide a description of what happened."} # {}

\* the reply to an unrecognised confirmation response shows the proposal's lines
ConfirmationErrorRestates ==
  \A u \in Users :
    AwaitingConfirmation(u) =>
      \A text \in UnrecognisedResponses :
        \E r \in {process_message(CONV, text, u, << >>)} :
          /\ r.reply.next_expected = "confirmation"
          /\ \A i \in DOMAIN ProposalLines(CONV[u]) :
               Range(ProposalLines(CONV[u])[i]) \subseteq Range(r.reply.reply)

\* C23: every error reply restates the question: the reply to a rejected answer
\* holds the prompt of the head of the queue, the reply to a rejected description
\* asks for the description, and the reply to an unrecognised confirmation response
\* shows the extracted details that await confirmation.
ErrorReplyRestatesQuestion ==
  /\ FieldErrorRestates
  /\ DescriptionErrorRestates
  /\ ConfirmationErrorRestates

\* the phase the dispatch of process_message and the head of the queue put a
\* conversation in: 0 INIT, 1 AWAITING_CONFIRMATION, 2 COLLECTING_BASIC,
\* 3 COLLECTING_BRANCH, 4 COLLECTING_ROOT_CAUSE, 5 FINALIZED
Phase(convo) ==
  IF convo.finished THEN 5
  ELSE IF DOMAIN convo.data = {} /\ convo.queue = << >> THEN 0
  ELSE IF DOMAIN convo.pending_confirmations # {} THEN 1
  ELSE IF convo.queue = << >> THEN 3
  ELSE IF convo.queue[1].field_key \in BasicKeys THEN 2
  ELSE IF convo.queue[1].field_key \in RootCauseKeys THEN 4
  ELSE 3

\* the messages of the users that go on answering: for each phase some that are
\* accepted and some that are rejected
LiveDescriptions == {<<"broke", "arm">>, <<"truck">>, <<"damage">>, EmptyText}

LiveResponses == {<<"yes">>, <<"no">>, <<"maybe">>}

LiveAnswers(field_key) ==
  CASE field_key = "event_type" -> Range(FIELD_OPTIONS["event_type"].options) \cup {<<"forklift">>}
    [] field_key = "when" -> {<<"2024-01-15">>, <<"2024-13-45">>}
    [] field_key \in YesNoFields -> {<<"yes">>, EmptyText}
    [] FieldInputs(field_key) # {} -> FieldInputs(field_key) \cup {EmptyText}
    [] OTHER -> {<<"ok">>, EmptyText}

\* a message to a conversation in progress
Message(u, valid) ==
  \/ /\ AwaitingDescription(u)
     /\ \E text \in LiveDescriptions :
          /\ valid <=> nonempty(Strip(text)) /\ len_ok(Strip(text))
          /\ \E incidents \in extract_incidents(Strip(text)) : Call(u, text, incidents)
  \/ /\ AwaitingConfirmation(u)
     /\ \E text \in LiveResponses :
          /\ valid <=> text \notin UnrecognisedResponses
          /\ Call(u, text, << >>)
  \/ /\ Collecting(u)
     /\ CONV[u].queue = << >>
     /\ valid
     /\ Call(u, <<"ok">>, << >>)
  \/ /\ Collecting(u)
     /\ CONV[u].queue # << >>
     /\ \E text \in LiveAnswers(CONV[u].queue[1].field_key) :
          /\ valid <=> validate_field(CONV[u].queue[1].field_key, Strip(text),
                                      CONV[u].queue[1].validator)
          /\ Call(u, text, << >>)

\* a message the conversation's phase accepts: a description that is not empty,
\* a recognised response to a confirmation, an answer that passes the validation
\* of the head of the queue
ValidAnswer(u) == Message(u, TRUE)

\* a message the conversation's phase rejects
InvalidAnswer(u) == Message(u, FALSE)

LiveNext == \E u \in Users : FirstContact(u) \/ ValidAnswer(u) \/ InvalidAnswer(u)

\* the user goes on answering: a valid answer is given to every prompt, sooner or
\* later
LiveSpec == Init /\ [][LiveNext]_vars /\ \A u \in Users : WF_vars(ValidAnswer(u))

\* no step takes a conversation in progress to an earlier phase
PhaseForward ==
  \A u \in DOMAIN CONV :
    ~CONV[u].finished => u \in DOMAIN CONV' /\ Phase(CONV'[u]) >= Phase(CONV[u])

\* C24 (phase order and liveness): a conversation in progress never moves to an
\* earlier phase, and when the user goes on giving valid answers every
\* conversation is finalized, by a reply with done = true.
PhaseOrderAndLiveness ==
  /\ [][PhaseForward]_vars
  /\ \A u \in Users : Active(u) ~> (u \in DOMAIN CONV /\ CONV[u].finished /\ reply.done)

\* a conversation that went through every phase: a confirmed injury proposal, the
\* basics, the branch and the root cause, finalized
PhaseWitness ==
  /\ Called
  /\ Phase(Current) = 5
  /\ reply.done
  /\ Current.extracted_incidents # << >>
  /\ Current.event_type = <<"Injury/Illness">>
  /\ {"inj_body_part", "when", "where", "inj_severity", "why5", "capa_due"}
       \subseteq DOMAIN Current.data

(***************************************************************************)
(* POST /chat/reset                                                        *)
(***************************************************************************)
\* _CONV after chat_reset: the handler sets _CHATBOT to None, and the next request
\* builds a new EnhancedSmartEHSChatbot; the conversations are in the module-level
\* _CONV, which chat_reset does not touch
chat_reset(conv) == conv

\* the response of chat_reset
ResetReply ==
  [reply |-> <<"Session reset.">>, next_expected |-> Absent, done |-> FALSE,
   ui |-> Absent, options |-> << >>, result |-> << >>]

\* POST /chat/reset from user u
Reset(u) ==
  /\ CONV' = chat_reset(CONV)
  /\ reply' = ResetReply
  /\ raised' = NoException
  /\ caller' = u
  /\ UNCHANGED <<inflight, sessions>>

ResetNext == Next \/ \E u \in Users : Reset(u)

ResetSpec == Init /\ [][ResetNext]_vars

\* C25: after a reset the user's conversation is gone or fresh (no queue, no data,
\* no pending confirmation), and the user's next message is handled as first
\* contact: the reply is the one that opens a report.
ResetReplacesConversation ==
  reply = ResetReply =>
    /\ caller \in DOMAIN CONV => CONV[caller] = Conversation(caller)
    /\ \A text \in CommonInputs \cup {<<"yes">>} :
         \E r \in {process_message(CONV, text, caller, << >>)} :
           /\ r.reply = start_incident(caller).reply
           /\ r.CONV[caller] = Conversation(caller)

\* a reset after answers were stored
ResetWitness ==
  /\ reply = ResetReply
  /\ Called
  /\ {"description", "when"} \subseteq DOMAIN Current.data
  /\ Current.queue # << >>

(***************************************************************************)
(* Concurrent requests                                                     *)
(***************************************************************************)
\* the request threads of the server; each serves one request
Threads == {"t1", "t2"}

\* a request thread enters _process_regular_field: it reads the head of the queue
\* and validates the text against it; no lock is taken
BeginAnswer(t, u) ==
  /\ t \notin DOMAIN inflight
  /\ Collecting(u)
  /\ CONV[u].queue # << >>
  /\ \E text \in LiveAnswers(CONV[u].queue[1].field_key) :
       /\ validate_field(CONV[u].queue[1].field_key, Strip(text),
                         CONV[u].queue[1].validator)
       /\ inflight' = Put(inflight, t, [user_id |-> u, text |-> Strip(text),
                                        head |-> CONV[u].queue[1], pc |-> "validated"])
  /\ UNCHANGED <<CONV, reply, raised, caller, sessions>>

\* convo.data[field_key] = self._process_field_value(field_key, text)
StoreAnswer(t) ==
  /\ t \in DOMAIN inflight
  /\ inflight[t].pc = "validated"
  /\ CONV' = [CONV EXCEPT ![inflight[t].user_id].data =
                Put(@, inflight[t].head.field_key,
                    process_field_value(inflight[t].head.field_key, inflight[t].text))]
  /\ inflight' = [inflight EXCEPT ![t].pc = "stored"]
  /\ UNCHANGED <<reply, raised, caller, sessions>>

\* the return of thread t's call with the outcome o
ReturnFrom(t, o) ==
  /\ CONV' = Put(CONV, inflight[t].user_id, o.conv)
  /\ reply' = o.reply
  /\ raised' = o.raised
  /\ caller' = inflight[t].user_id
  /\ inflight' = [inflight EXCEPT ![t] = [pc |-> "returned"]]
  /\ UNCHANGED sessions

\* convo.queue.pop(0), which raises IndexError on an empty list, then the event
\* type selection and _next_prompt
PopAndReply(t) ==
  /\ t \in DOMAIN inflight
  /\ inflight[t].pc = "stored"
  /\ IF CONV[inflight[t].user_id].queue = << >>
     THEN ReturnFrom(t, Raise(CONV[inflight[t].user_id], "IndexError"))
     ELSE ReturnFrom(t, AfterSave([CONV[inflight[t].user_id] EXCEPT !.queue = Tail(@)],
                                  inflight[t].head.field_key))

\* requests served one at a time, and answers served by two threads at once
RaceNext ==
  \/ \E u \in Users : FirstContact(u) \/ ValidAnswer(u)
  \/ \E t \in Threads : (\E u \in Users : BeginAnswer(t, u)) \/ StoreAnswer(t) \/ PopAndReply(t)

RaceSpec == Init /\ [][RaceNext]_vars

\* the questions a conversation past its confirmation has to ask: when and where,
\* the list of a selected event type, and the root-cause set once it is begun
Required(convo) ==
  {"when", "where"}
  \cup (IF convo.event_type \in CanonicalLabels \ {<<"Depot", "Event">>}
        THEN BranchKeys(convo.event_type) ELSE {})
  \cup (IF (QueueKeys(convo.queue) \cup DOMAIN convo.data) \cap RootCauseKeys # {}
        THEN RootCauseKeys ELSE {})

\* C26: when no call is in flight, the conversation is as some serial order of
\* the calls leaves it: every question it has to ask is in the queue or has its
\* answer in data (no queued field is dropped unanswered), and no key is both
\* answered and queued.
NoFieldDropped ==
  ~Busy =>
    \A u \in DOMAIN CONV :
      DOMAIN CONV[u].data # {} /\ DOMAIN CONV[u].pending_confirmations = {} =>
        /\ Required(CONV[u]) \subseteq QueueKeys(CONV[u].queue) \cup DOMAIN CONV[u].data
        /\ QueueKeys(CONV[u].queue) \cap DOMAIN CONV[u].data = {}

\* two answers to the same question were served at once: both returned, and a
\* question that was never asked is gone from the queue
RaceWitness ==
  /\ ~Busy
  /\ DOMAIN inflight = Threads
  /\ Called
  /\ "when" \in DOMAIN Current.data
  /\ "where" \notin DOMAIN Current.data
  /\ "where" \notin QueueKeys(Current.queue)
  /\ DOMAIN Current.pending_confirmations = {}

(***************************************************************************)
(* Five Whys                                                               *)
(***************************************************************************)
\* str(n)
ToStr(n) == <<"0", "1", "2", "3", "4", "5", "6", "7", "8", "9">>[n + 1]

\* a method of the manager: the sessions it leaves and the dict it returns
FwReturn(s, r) == [sessions |-> s, ret |-> r]

\* a faulty variant: a new analysis keeps the answers of the one before
fw_start_keeping(s, user_id, problem) ==
  FwReturn(Put(s, user_id,
               [problem |-> problem,
                whys |-> IF user_id \in DOMAIN s THEN s[user_id].whys ELSE << >>,
                current_why |-> 1]),
           [reply |-> <<"**Root Cause Analysis - 5 Whys Method**", "**Problem**:">>
                      \o problem \o <<"**Why 1**: Why did this problem occur?">>,
            ui |-> "textarea"])

\* EnhancedFiveWhysManager.start
fw_start(s, user_id, problem) ==
  FwReturn(Put(s, user_id, [problem |-> problem, whys |-> << >>, current_why |-> 1]),
           [reply |-> <<"**Root Cause Analysis - 5 Whys Method**", "**Problem**:">>
                      \o problem \o <<"**Why 1**: Why did this problem occur?">>,
            ui |-> "textarea"])

\* EnhancedFiveWhysManager._complete_analysis
complete_analysis(s, user_id) ==
  IF user_id \notin DOMAIN s THEN FwReturn(s, [error |-> <<"Session not found">>])
  ELSE FwReturn(s,
         [reply |-> <<"**Root Cause Analysis Complete**">>
                    \o Join(<<"\n">>, [i \in DOMAIN s[user_id].whys |->
                                         <<"**Why", ToStr(i), "**:">> \o s[user_id].whys[i]])
                    \o <<"**Root Cause**:">> \o s[user_id].whys[Len(s[user_id].whys)],
          analysis_complete |-> TRUE,
          root_cause |-> s[user_id].whys[Len(s[user_id].whys)],
          all_whys |-> s[user_id].whys])

\* the end of answer: s holds the appended answer
AfterAppend(s, user_id) ==
  IF Len(s[user_id].whys) >= 5 THEN complete_analysis(s, user_id)
  ELSE FwReturn(s,
         [reply |-> <<"**Why", ToStr(s[user_id].current_why), "**: Why">>
                    \o LowerText(s[user_id].whys[Len(s[user_id].whys)]) \o <<"?">>,
          ui |-> "textarea",
          helper_text |-> <<"Continue digging deeper -", ToStr(6 - s[user_id].current_why),
                            "more to go">>])

\* EnhancedFiveWhysManager.answer
fw_answer(s, user_id, answer) ==
  IF user_id \notin DOMAIN s THEN FwReturn(s, [error |-> <<"No active 5 Whys session">>])
  ELSE IF Strip(answer) = EmptyText
  THEN FwReturn(s, [reply |-> <<Warn, "Please provide an answer to Why",
                                ToStr(s[user_id].current_why), ":">>,
                    ui |-> "textarea"])
  ELSE AfterAppend([s EXCEPT ![user_id].whys = Append(@, Strip(answer)),
                             ![user_id].current_why = @ + 1], user_id)

\* a faulty variant: four answers complete the analysis
is_complete_at_four(s, user_id) == user_id \in DOMAIN s /\ Len(s[user_id].whys) >= 4

\* EnhancedFiveWhysManager.is_complete
is_complete(s, user_id) == user_id \in DOMAIN s /\ Len(s[user_id].whys) >= 5

\* an endpoint's outcome: the sessions it leaves, its JSON response or the
\* exception that ends the request
Respond(s, r) == [sessions |-> s, response |-> r, raised |-> NoException]

Crash(s, e) == [sessions |-> s, response |-> NoReply, raised |-> e]

\* POST /five_whys/start
five_whys_start(s, user_id, problem) ==
  IF Strip(problem) = EmptyText
  THEN Respond(s, [ok |-> FALSE, error |-> <<"Please provide a problem statement.">>])
  ELSE Respond(fw_start(s, user_id, Strip(problem)).sessions,
               [ok |-> TRUE, step |-> 1, prompt |-> <<"Why 1?">>, problem |-> Strip(problem)])

\* len(sess.get("whys", []))
WhysOf(sess) == IF "whys" \in DOMAIN sess THEN Len(sess.whys) ELSE 0

\* the end of five_whys_answer: a is the outcome of five_whys_manager.answer; the
\* dict it returned is never empty, so `not sess` is false; sess["whys"] raises
\* KeyError when the dict has no such key
AnswerResponse(a, user_id, force_complete) ==
  IF DOMAIN a.ret = {}
  THEN Respond(a.sessions,
               [ok |-> FALSE, error |-> <<"No active 5-Whys session. Start first.">>])
  ELSE IF "whys" \notin DOMAIN a.ret THEN Crash(a.sessions, "KeyError")
  ELSE IF is_complete(a.sessions, user_id) \/ force_complete
  THEN Respond(a.sessions, [ok |-> TRUE, complete |-> TRUE, whys |-> a.ret.whys,
                            message |-> <<"5 Whys completed.">>])
  ELSE Respond(a.sessions, [ok |-> TRUE, complete |-> FALSE,
                            prompt |-> <<"Why", ToStr(WhysOf(a.ret) + 1), "?">>,
                            progress |-> Len(a.ret.whys)])

\* POST /five_whys/answer
five_whys_answer(s, user_id, answer, force_complete) ==
  AnswerResponse(fw_answer(s, user_id, Strip(answer)), user_id, force_complete)

\* the users of the Five-Whys endpoints, and what they send
FwUsers == {"u1", "u2"}

Problems == {<<"oil", "spill">>, EmptyText}

WhyAnswers == {<<"oil">>, <<WS, "Burn">>, EmptyText, <<WS>>}

\* the longest why-list followed
MaxWhys == 6

\* one request to a Five-Whys endpoint and its outcome
Respondent(u, o) ==
  /\ sessions' = o.sessions
  /\ reply' = o.response
  /\ raised' = o.raised
  /\ caller' = u
  /\ UNCHANGED <<CONV, inflight>>

StartAnalysis(u) ==
  \E problem \in Problems : Respondent(u, five_whys_start(sessions, u, problem))

AnswerWhy(u) ==
  /\ u \in DOMAIN sessions => Len(sessions[u].whys) < MaxWhys
  /\ \E answer \in WhyAnswers, force_complete \in BOOLEAN :
       Respondent(u, five_whys_answer(sessions, u, answer, force_complete))

FiveWhysNext == \E u \in FwUsers : StartAnalysis(u) \/ AnswerWhy(u)

FiveWhysSpec == Init /\ [][FiveWhysNext]_vars

\* C27 (Five-Whys completion): start leaves an empty why-list that is not
\* complete; an answer that is not blank is appended, stripped, and the session is
\* complete exactly when the list then has five entries or more, so it is not
\* complete after 0 to 4 accepted answers and complete after the fifth; a blank
\* answer leaves the sessions as they were and is answered with a request for the
\* same why.
FiveWhysCompletion ==
  /\ \A u \in FwUsers : \A problem \in Problems :
       \E r \in {fw_start(sessions, u, problem)} :
         r.sessions[u].whys = << >> /\ ~is_complete(r.sessions, u)
  /\ \A u \in DOMAIN sessions :
       /\ is_complete(sessions, u) <=> Len(sessions[u].whys) >= 5
       /\ sessions[u].current_why = Len(sessions[u].whys) + 1
       /\ \A answer \in WhyAnswers :
            \E r \in {fw_answer(sessions, u, answer)} :
              IF Strip(answer) = EmptyText
              THEN /\ r.sessions = sessions
                   /\ Head(r.ret.reply) = Warn
                   /\ "analysis_complete" \notin DOMAIN r.ret
              ELSE /\ r.sessions[u].whys = Append(sessions[u].whys, Strip(answer))
                   /\ is_complete(r.sessions, u) <=> Len(sessions[u].whys) >= 4
                   /\ "analysis_complete" \in DOMAIN r.ret <=> Len(sessions[u].whys) >= 4

\* the fifth accepted answer has completed a session, blank answers in between
FiveWhysWitness ==
  /\ caller \in DOMAIN sessions
  /\ Len(sessions[caller].whys) = 5
  /\ is_complete(sessions, caller)
  /\ sessions[caller].whys[5] = <<"Burn">>

\* C28: start gives the user's session an empty why-list in every state, in the
\* middle of an analysis and after its completion too, the session is then not
\* complete, and the sessions of the other users are as they were.
StartResetsSession ==
  \A u \in FwUsers : \A problem \in Problems :
    \E r \in {fw_start(sessions, u, problem)} :
      /\ DOMAIN r.sessions = DOMAIN sessions \cup {u}
      /\ r.sessions[u].whys = << >>
      /\ r.sessions[u].problem = problem
      /\ ~is_complete(r.sessions, u)
      /\ \A v \in DOMAIN sessions \ {u} : r.sessions[v] = sessions[v]

\* a user has just started an analysis while the other user's is complete
StartWitness ==
  /\ caller \in DOMAIN sessions
  /\ sessions[caller].whys = << >>
  /\ raised = NoException
  /\ "step" \in DOMAIN reply
  /\ \E v \in DOMAIN sessions \ {caller} : is_complete(sessions, v)

\* C29: on a started session an answer that is not blank is appended and the
\* manager returns a snapshot whose whys is the session's why-list with the new
\* text, so the endpoint answers complete = false with the prompt of the next why
\* before the fifth answer and complete = true with the chain of whys at the fifth.
AnswerReturnsSnapshot ==
  \A u \in DOMAIN sessions : \A answer \in WhyAnswers :
    Strip(answer) # EmptyText /\ Len(sessions[u].whys) < 5 =>
      /\ \E a \in {fw_answer(sessions, u, Strip(answer))} :
           /\ a.sessions[u].whys = Append(sessions[u].whys, Strip(answer))
           /\ "whys" \in DOMAIN a.ret
           /\ a.ret.whys = a.sessions[u].whys
      /\ \E r \in {five_whys_answer(sessions, u, answer, FALSE)} :
           /\ r.raised = NoException
           /\ r.response.ok
           /\ IF Len(sessions[u].whys) = 4
              THEN /\ r.response.complete
                   /\ r.response.whys = Append(sessions[u].whys, Strip(answer))
              ELSE /\ ~r.response.complete
                   /\ r.response.prompt = <<"Why", ToStr(Len(sessions[u].whys) + 2), "?">>

\* C30: an answer for a user with no session creates no session and gets the
\* response ok = false, 'No active 5-Whys session. Start first.'; the request does
\* not end in an exception.
AnswerWithoutSession ==
  \A u \in FwUsers \ DOMAIN sessions :
    \A answer \in WhyAnswers, force_complete \in BOOLEAN :
      \E r \in {five_whys_answer(sessions, u, answer, force_complete)} :
        /\ r.sessions = sessions
        /\ r.raised = NoException
        /\ r.response = [ok |-> FALSE,
                         error |-> <<"No active 5-Whys session. Start first.">>]

\* an answer to the endpoint from a user who never started an analysis
NoSessionWitness ==
  /\ caller \in FwUsers \ DOMAIN sessions
  /\ raised = "KeyError"

(***************************************************************************)
(* Intent classifier                                                       *)
(***************************************************************************)
\* one alternative of an intent pattern: the words of a phrase, or the words a
\* match of `first.*last` can begin with and end in
Phrase(words) == [words |-> words, first |-> {}, last |-> {}]

Span(first, last) == [words |-> << >>, first |-> first, last |-> last]

\* the words that begin with report, of those the messages are made of
ReportWords == {"report", "reporting"}

\* EnhancedIntentClassifier._intents: the label and the alternatives of each pattern
intents ==
  <<[label |-> <<"Report", "incident">>,
     pattern |-> <<Span(ReportWords \cup {"file", "submit", "create"}, {"incident"}),
                   Phrase(<<"incident", "report">>),
                   Span({"start", "starting"}, {"incident", "report"})>>],
    [label |-> <<"Report", "injury">>,
     pattern |-> <<Span({"injury", "injured", "hurt", "accident", "medical"}, {"report"}),
                   Span(ReportWords, {"injury", "accident"})>>],
    [label |-> <<"Report", "spill">>,
     pattern |-> <<Span({"spill", "leak", "environmental"}, {"report"}),
                   Span(ReportWords, {"spill", "leak"})>>],
    [label |-> <<"Safety", "concern">>,
     pattern |-> <<Phrase(<<"safety", "concern">>), Phrase(<<"near", "miss">>),
                   Phrase(<<"unsafe">>), Phrase(<<"hazard">>)>>],
    [label |-> <<"Emergency">>,
     pattern |-> <<Phrase(<<"emergency">>), Phrase(<<"urgent">>), Phrase(<<"immediate">>),
                   Phrase(<<"911">>), Phrase(<<"hospital">>)>>],
    [label |-> <<"Find", "SDS">>,
     pattern |-> <<Phrase(<<"find", "sds">>), Phrase(<<"sds">>),
                   Phrase(<<"safety", "data", "sheet">>),
                   Span({"material", "materials"}, {"safety"})>>],
    [label |-> <<"Risk", "assessment">>,
     pattern |-> <<Phrase(<<"risk", "assessment">>), Phrase(<<"erc">>),
                   Phrase(<<"likelihood">>), Phrase(<<"risk", "analysis">>)>>],
    [label |-> <<"What's", "urgent?">>,
     pattern |-> <<Phrase(<<"urgent">>), Phrase(<<"priority">>), Phrase(<<"overdue">>),
                   Phrase(<<"pending">>)>>],
    [label |-> <<"Help">>,
     pattern |-> <<Phrase(<<"help">>), Phrase(<<"guide">>), Phrase(<<"how", "to">>),
                   Phrase(<<"instructions">>), Phrase(<<"tour">>)>>]>>

\* the largest member of a set of positions
MaxOf(S) == CHOOSE j \in S : \A k \in S : k <= j

\* where the match of one alternative that begins at word i ends, 0 if there is none;
\* `.*` is greedy, so a span ends in the last word it can end in
MatchEnd(alt, text, i) ==
  IF alt.words # << >>
  THEN IF i + Len(alt.words) - 1 <= Len(text)
          /\ SubSeq(text, i, i + Len(alt.words) - 1) = alt.words
       THEN i + Len(alt.words) - 1 ELSE 0
  ELSE IF text[i] \in alt.first /\ \E j \in (i + 1)..Len(text) : text[j] \in alt.last
       THEN MaxOf({j \in (i + 1)..Len(text) : text[j] \in alt.last})
       ELSE 0

\* where the match of the pattern that begins at word i ends: that of the first
\* alternative that matches there
PatternEnd(pattern, text, i) ==
  LET ends == SelectSeq([k \in DOMAIN pattern |-> MatchEnd(pattern[k], text, i)],
                        LAMBDA e : e # 0)
  IN IF ends = << >> THEN 0 ELSE ends[1]

\* len(re.findall(pattern, text)): the matches from word i on, none overlapping
RECURSIVE FindAll(_, _, _)
FindAll(pattern, text, i) ==
  IF i > Len(text) THEN 0
  ELSE IF PatternEnd(pattern, text, i) # 0
       THEN 1 + FindAll(pattern, text, PatternEnd(pattern, text, i) + 1)
       ELSE FindAll(pattern, text, i + 1)

\* what classify_intent returns, the confidence in hundredths
Intent(label, confidence) == [label |-> label, confidence |-> confidence]

\* a faulty variant: the last pattern that matches gives the label
classify_intent_last_match(text) ==
  LET text_lower == Strip(LowerText(text))
      hits == SelectSeq(intents, LAMBDA e : FindAll(e.pattern, text_lower, 1) > 0)
  IN IF hits = << >> THEN Intent(<<"Unknown">>, 0)
     ELSE Intent(hits[Len(hits)].label,
                 Min(70 + FindAll(hits[Len(hits)].pattern, text_lower, 1) * 10, 95))

\* EnhancedIntentClassifier.classify_intent
classify_intent(text) ==
  LET text_lower == Strip(LowerText(text))
      hits == SelectSeq(intents, LAMBDA e : FindAll(e.pattern, text_lower, 1) > 0)
  IN IF hits = << >> THEN Intent(<<"Unknown">>, 0)
     ELSE Intent(hits[1].label, Min(70 + FindAll(hits[1].pattern, text_lower, 1) * 10, 95))

(***************************************************************************)
(* POST /chat                                                              *)
(***************************************************************************)
\* the JSON body of a response and its status; bot is the reply dict of
\* process_message the body was made from, NoReply if there was none
Response(status, type, message, intent, bot) ==
  [status |-> status, type |-> type, message |-> message,
   quick_intent |-> intent.label, quick_confidence |-> intent.confidence, bot |-> bot]

\* the end of chat_interface: r is the outcome of bot.process_message
BotResponse(r, intent) ==
  IF r.raised # NoException
  THEN [CONV |-> r.CONV, raised |-> NoException,
        reply |-> Response(500, "error", <<"Sorry, something went wrong handling that.">>,
                           Intent(NoneVal, 0), NoReply)]
  ELSE [CONV |-> r.CONV, raised |-> NoException,
        reply |-> Response(200, "message",
                           IF Strip(r.reply.reply) # EmptyText THEN r.reply.reply
                           ELSE <<"OK">>,
                           intent, r.reply)]

\* chat_interface, POST: uploaded_file is "none", "allowed" or "refused"
chat_interface(conv, raw_msg, user_id, uploaded_file, incidents) ==
  IF Strip(raw_msg) = EmptyText /\ uploaded_file = "none"
  THEN [CONV |-> conv, raised |-> NoException,
        reply |-> Response(400, "error", <<"Please type a message or attach a file.">>,
                           Intent(NoneVal, 0), NoReply)]
  ELSE IF uploaded_file = "allowed"
  THEN [CONV |-> conv, raised |-> NoException,
        reply |-> Response(200, "file_ack", <<"Received your file">>,
                           classify_intent(Strip(raw_msg)), NoReply)]
  ELSE IF uploaded_file = "refused"
  THEN [CONV |-> conv, raised |-> NoException,
        reply |-> Response(400, "error", <<"This file type is not allowed.">>,
                           Intent(NoneVal, 0), NoReply)]
  ELSE BotResponse(process_message(conv, Strip(raw_msg), user_id, incidents),
                   classify_intent(Strip(raw_msg)))

\* messages that name a flow of their own, and messages of an emergency
IntentTexts ==
  {<<"Find", "sds">>, <<"sds">>, <<"help">>, <<"urgent">>, <<"urgent", "urgent", "urgent">>,
   <<"report", "incident">>, <<"hello">>}

EmergencyTexts ==
  {<<"Emergency", "!", "Someone", "is", "bleeding", "badly">>, <<"Call", "911", "now", "!">>}

\* the description of Scenario A
ScenarioA == <<"John", "Smith", "broke", "his", "arm", "in", "the", "Atlanta", "warehouse">>

\* what a user posts: a message with an intent of its own when a conversation
\* begins or is to be described, a message that fits the state of the conversation
\* otherwise, or nothing
ChatMessages(u) ==
  {EmptyText}
  \cup (IF ~Active(u) THEN IntentTexts \cup EmergencyTexts
        ELSE IF AwaitingDescription(u)
        THEN LiveDescriptions \cup EmergencyTexts \cup {<<"Find", "sds">>, ScenarioA}
        ELSE IF AwaitingConfirmation(u) THEN LiveResponses
        ELSE IF CONV[u].queue # << >> THEN LiveAnswers(CONV[u].queue[1].field_key)
        ELSE {})

\* one POST to /chat
Post(u) ==
  /\ \E raw_msg \in ChatMessages(u), uploaded_file \in {"none", "allowed", "refused"} :
       \E incidents \in extract_incidents(Strip(raw_msg)) :
         \E r \in {chat_interface(CONV, raw_msg, u, uploaded_file, incidents)} :
           /\ CONV' = r.CONV
           /\ reply' = r.reply
           /\ raised' = r.raised
           /\ caller' = u
  /\ UNCHANGED <<inflight, sessions>>

ChatNext == \E u \in Users : Post(u)

ChatSpec == Init /\ [][ChatNext]_vars

\* the places in the list of the patterns that match a text
Matching(text) ==
  {k \in DOMAIN intents : FindAll(intents[k].pattern, Strip(LowerText(text)), 1) > 0}

\* the number of matches of the first pattern that matches
FirstCount(text) ==
  FindAll(intents[MaxOf({k \in Matching(text) : \A j \in Matching(text) : k <= j})].pattern,
          Strip(LowerText(text)), 1)

\* the intent reported in the responses to a message, with and without a file
Reported(text) ==
  {[label |-> r.reply.quick_intent, confidence |-> r.reply.quick_confidence] :
     r \in {chat_interface(CONV, text, u, uploaded_file, incidents) :
              u \in Users, uploaded_file \in {"none", "allowed"},
              incidents \in extract_incidents(Strip(text))}}

\* C31 (as the code has it): classify_intent returns ("Unknown", 0.0) when no
\* pattern matches, and otherwise the label of the first pattern in list order that
\* matches, with confidence 0.8 for one match of that pattern, 0.9 for two and 0.95
\* for three or more; the responses of POST /chat report that intent.
FirstMatchWins ==
  \A text \in IntentTexts \cup EmergencyTexts :
    \E c \in {classify_intent(text)} :
      /\ Reported(text) = {c}
      /\ IF Matching(text) = {} THEN c = Intent(<<"Unknown">>, 0)
         ELSE /\ \E k \in Matching(text) :
                   /\ c.label = intents[k].label
                   /\ \A j \in Matching(text) : k <= j
              /\ c.confidence = (CASE FirstCount(text) = 1 -> 80
                                   [] FirstCount(text) = 2 -> 90
                                   [] OTHER -> 95)

\* C31 (as stated): every match has the same fixed confidence 0.95.
FirstMatchFixedConfidence ==
  \A text \in IntentTexts \cup EmergencyTexts :
    \E c \in {classify_intent(text)} :
      /\ Reported(text) = {c}
      /\ IF Matching(text) = {} THEN c = Intent(<<"Unknown">>, 0)
         ELSE /\ \E k \in Matching(text) :
                   /\ c.label = intents[k].label
                   /\ \A j \in Matching(text) : k <= j
              /\ c.confidence = 95

\* the response to a message that two patterns match once each
FirstMatchWitness ==
  /\ "status" \in DOMAIN reply
  /\ reply.status = 200
  /\ reply.type = "message"
  /\ reply.quick_intent = <<"Emergency">>
  /\ reply.quick_confidence = 80

\* the intents of flows other than the incident report
UnrelatedIntents == {<<"Find", "SDS">>, <<"Risk", "assessment">>, <<"Help">>}

\* C32: a message whose quick intent is that of an unrelated flow is not passed to
\* process_message: POST /chat neither creates a conversation for it nor changes
\* the conversations there are.
UnrelatedIntentLeavesConversations ==
  \A u \in Users : \A text \in IntentTexts :
    classify_intent(text).label \in UnrelatedIntents =>
      \A incidents \in extract_incidents(Strip(text)) :
        \E r \in {chat_interface(CONV, text, u, "none", incidents)} :
          /\ r.CONV = CONV
          /\ r.reply.bot = NoReply

\* a Find SDS message was taken as the description of an incident
UnrelatedIntentWitness ==
  /\ "status" \in DOMAIN reply
  /\ reply.quick_intent = <<"Find", "SDS">>
  /\ reply.bot # NoReply
  /\ Called
  /\ "description" \in DOMAIN Current.data
  /\ Current.data["description"] = <<"Find", "sds">>

\* C34: in every state, an emergency message is answered with a response of type
\* "emergency" whose message contains 911.
EmergencyAnswered ==
  \A u \in Users : \A text \in EmergencyTexts :
    \A incidents \in extract_incidents(Strip(text)) :
      \E r \in {chat_interface(CONV, text, u, "none", incidents)} :
        /\ r.reply.type = "emergency"
        /\ Contains(r.reply.message, <<"911">>)

\* the emergency message was stored as the description of an incident and
\* answered as any description is
EmergencyWitness ==
  /\ "status" \in DOMAIN reply
  /\ reply.quick_intent = <<"Emergency">>
  /\ reply.type = "message"
  /\ ~Contains(reply.message, <<"911">>)
  /\ Called
  /\ "description" \in DOMAIN Current.data
  /\ Current.data["description"] = <<"Call", "911", "now", "!">>

\* C33 (Scenario A): for the description "John Smith broke his arm in the Atlanta
\* warehouse" the extraction proposes event_type = Injury/Illness, people =
\* ["John Smith"], location = "Atlanta", body_parts = ["arm"] and injuries =
\* ["fracture"].
ScenarioAProposal ==
  \A u \in Users :
    AwaitingDescription(u) =>
      \A incidents \in extract_incidents(ScenarioA) :
        \E r \in {process_message(CONV, ScenarioA, u, incidents)} :
          /\ r.raised = NoException
          /\ r.reply.next_expected = "confirmation"
          /\ r.CONV[u].pending_confirmations =
               [event_type |-> <<"Injury/Illness">>,
                people |-> << <<"John", "Smith">> >>,
                where |-> <<"Atlanta">>,
                body_parts |-> << <<"arm">> >>,
                injuries |-> << <<"fracture">> >>]

\* the proposal made for the description of Scenario A
ScenarioAWitness ==
  /\ Called
  /\ AwaitingConfirmation(caller)
  /\ Current.data["description"] = ScenarioA
  /\ Current.pending_confirmations =
       [event_type |-> <<"Injury/Illness">>,
        people |-> << <<"John", "Smith", "Broke", "His", "Arm", "In", "The", "Atlanta",
                        "Warehouse">> >>,
        where |-> <<"Warehouse", ",", "Atlanta">>,
        body_parts |-> << <<"arm">> >>,
        injuries |-> << <<"fracture">> >>]

(***************************************************************************)
(* Values committed and stored                                             *)
(***************************************************************************)
\* C36: when a proposal with a cost is accepted, data["property_cost"] is the whole
\* cost value of the proposal, the one the confirmation message showed.
AcceptedCostIsWhole ==
  \A u \in DOMAIN CONV :
    "costs" \in DOMAIN CONV[u].pending_confirmations =>
      /\ (u = caller /\ Head(reply.reply) # "Please choose one of the options:")
           => Contains(reply.reply,
                       <<"**Estimated Cost**:">> \o CONV[u].pending_confirmations["costs"])
      /\ \A text \in AcceptInputs :
           \E r \in {process_message(CONV, text, u, << >>)} :
             /\ "property_cost" \in DOMAIN r.CONV[u].data
             /\ r.CONV[u].data["property_cost"] = CONV[u].pending_confirmations["costs"]

\* the cost 500 was proposed and accepted, and its first character was stored
AcceptedCostWitness ==
  /\ Called
  /\ Collecting(caller)
  /\ Contains(Current.data["description"], <<"500">>)
  /\ "property_cost" \in DOMAIN Current.data
  /\ Current.data["property_cost"] = <<"5">>

\* C35: whenever the predicate of the validator named by the head of the queue
\* accepts the text of an answer of admissible length, as y does for a yesno field,
\* the value is stored under the field's key and the field is popped.
ValidatorDecidesAcceptance ==
  \A u \in Users :
    Collecting(u) /\ CONV[u].queue # << >> =>
      \A text \in AnswerInputs(CONV[u].queue[1].field_key) :
        len_ok(Strip(text)) /\ ValidatorFn(CONV[u].queue[1].validator, Strip(text)) =>
          \E r \in {process_message(CONV, text, u, << >>)} :
            /\ r.raised = NoException
            /\ CONV[u].queue[1].field_key \in DOMAIN r.CONV[u].data
            /\ CONV[u].queue[1].field_key \notin QueueKeys(r.CONV[u].queue)

\* a yesno question is at the head of the queue, and the answer y, which the yesno
\* predicate accepts, is rejected and leaves the conversation as it was
ValidatorWitness ==
  \E u \in Users :
    /\ Collecting(u)
    /\ CONV[u].queue # << >>
    /\ CONV[u].queue[1].validator = "yesno"
    /\ is_yes_no(<<"y">>)
    /\ \E r \in {process_message(CONV, <<"y">>, u, << >>)} :
         /\ r.CONV = CONV
         /\ Head(r.reply.reply) = Warn
         /\ r.reply.next_expected = CONV[u].queue[1].field_key

\* value is one of the options, case apart
IsOption(value, options) ==
  \E i \in DOMAIN options : LowerText(Strip(value)) = LowerText(options[i])

\* C37: every value held in data for a field with an options list is drawn from the
\* list: for a single-choice field it equals one option but for case, for a
\* multi-select field it is a comma-separated list of options; typed or committed
\* from an accepted extraction.
StoredValuesAreOptions ==
  \A u \in DOMAIN CONV : \A k \in DOMAIN CONV[u].data :
    FieldConfig(k).options # << >> =>
      IF FieldConfig(k).multi_select
      THEN \A part \in Range(SplitComma(CONV[u].data[k], << >>)) :
             IsOption(part, FieldConfig(k).options)
      ELSE IsOption(CONV[u].data[k], FieldConfig(k).options)

\* the body part of an accepted extraction is in data, and it is no option of
\* inj_body_part
StoredValuesWitness ==
  /\ Called
  /\ Collecting(caller)
  /\ "inj_body_part" \in DOMAIN Current.data
  /\ Current.data["inj_body_part"] = <<"arm">>
  /\ ~IsOption(<<"arm">>, FIELD_OPTIONS["inj_body_part"].options)

\* C38: a why-list never holds more than five entries: once the session is
\* complete, an answer leaves its why-list as it is.
CompleteSessionKeepsWhys ==
  \A u \in DOMAIN sessions :
    /\ Len(sessions[u].whys) <= 5
    /\ is_complete(sessions, u) =>
         \A answer \in WhyAnswers :
           fw_answer(sessions, u, answer).sessions[u].whys = sessions[u].whys

\* a sixth answer was appended to a complete session
CompleteSessionWitness ==
  /\ caller \in DOMAIN sessions
  /\ is_complete(sessions, caller)
  /\ Len(sessions[caller].whys) = 6

(***************************************************************************)
(* Several users                                                           *)
(***************************************************************************)
Tenants == {"u1", "u2"}

\* the longest why-list followed when two users are at work
MaxTenantWhys == 2

\* what a tenant sends to the chatbot: one message that fits the state of the
\* conversation, or a blank one
TenantMessages(u) ==
  {EmptyText}
  \cup (IF ~Active(u) THEN {<<"hello">>}
        ELSE IF AwaitingDescription(u) THEN {<<"truck">>}
        ELSE IF AwaitingConfirmation(u) THEN {<<"yes">>}
        ELSE IF CONV[u].queue = << >> THEN {<<"ok">>}
        ELSE IF CONV[u].queue[1].field_key = "when" THEN {<<"2024-01-15">>}
        ELSE {<<"ok">>})

\* a message of one user to the chatbot
TenantMessage(u) ==
  \E text \in TenantMessages(u) :
    \E incidents \in extract_incidents(Strip(text)) : Call(u, text, incidents)

\* one user starts a Five-Whys analysis
TenantStart(u) == Respondent(u, five_whys_start(sessions, u, <<"oil", "spill">>))

\* one user answers a why
TenantWhy(u) ==
  /\ u \in DOMAIN sessions => Len(sessions[u].whys) < MaxTenantWhys
  /\ Respondent(u, five_whys_answer(sessions, u, <<"oil">>, FALSE))

IsolationNext == \E u \in Tenants : TenantMessage(u) \/ TenantStart(u) \/ TenantWhy(u)

IsolationSpec == Init /\ [][IsolationNext]_vars

\* the map m agrees with the map n for every key but u
SameButFor(m, n, u) ==
  /\ DOMAIN m \ {u} = DOMAIN n \ {u}
  /\ \A v \in DOMAIN n \ {u} : m[v] = n[v]

\* the conversations with only that of u, if there is one
OnlyOf(conv, u) == [v \in DOMAIN conv \cap {u} |-> conv[v]]

IsolationTexts == {<<"truck">>, <<"yes">>, <<"ok">>, <<"2024-01-15">>, EmptyText}

\* process_message for u leaves every other conversation as it is, and its reply
\* and the conversation it leaves for u depend on no other conversation
MessageIsolated ==
  \A u \in Tenants : \A text \in IsolationTexts :
    \A incidents \in extract_incidents(Strip(text)) :
      \E r \in {process_message(CONV, text, u, incidents)} :
        /\ SameButFor(r.CONV, CONV, u)
        /\ u \in DOMAIN r.CONV
        /\ \E o \in {process_message(OnlyOf(CONV, u), text, u, incidents)} :
             /\ o.reply = r.reply
             /\ o.raised = r.raised
             /\ o.CONV[u] = r.CONV[u]

\* the Five-Whys endpoints for u leave every other session as it is
FiveWhysIsolated ==
  \A u \in Tenants :
    /\ \A problem \in Problems :
         SameButFor(five_whys_start(sessions, u, problem).sessions, sessions, u)
    /\ \A answer \in WhyAnswers, force_complete \in BOOLEAN :
         SameButFor(five_whys_answer(sessions, u, answer, force_complete).sessions,
                    sessions, u)

\* a step changes no conversation and no session but the caller's, and does not
\* change conversations and sessions together
StepIsolated ==
  /\ SameButFor(CONV', CONV, caller')
  /\ SameButFor(sessions', sessions, caller')
  /\ CONV' = CONV \/ sessions' = sessions

\* C39 (user isolation): process_message(text, u) reads and changes only the
\* conversation stored under u, Five-Whys start and answer for u change only the
\* session of u, no operation for one user changes the conversation or the session
\* of another, and a Five-Whys operation changes no conversation.
UserIsolation ==
  /\ [](MessageIsolated /\ FiveWhysIsolated)
  /\ [][StepIsolated]_vars

\* one user has answered a question of the incident report and a why, while the
\* other user's conversation awaits its confirmation and their analysis has begun
IsolationWitness ==
  /\ caller = "u1"
  /\ {"u1", "u2"} \subseteq DOMAIN CONV
  /\ {"u1", "u2"} \subseteq DOMAIN sessions
  /\ Collecting("u1")
  /\ "when" \in DOMAIN CONV["u1"].data
  /\ AwaitingConfirmation("u2")
  /\ Len(sessions["u1"].whys) = 1
  /\ sessions["u2"].whys = << >>
====
